---- MODULE Spec2Model ----
(***************************************************************************)
(* Model of the pixel-forge image normalization core                       *)
(* (src/src/core/image-processor.ts and the generators that drive it).     *)
(*                                                                         *)
(* Specifications:                                                         *)
(*   SpecFit   - ImageProcessor.resize, inputs drawn over sizes and fits   *)
(*   SpecBg    - ImageProcessor.resize, inputs drawn over backgrounds,     *)
(*               engines and inference outcomes                            *)
(*   SpecProc  - the temp-file registry of processor instances under       *)
(*               resize / addText / applyColor / createSocialPreview /     *)
(*               cleanup                                                   *)
(*   SpecInfer - ImageProcessor.inferBgFromRGBA scanning a raster          *)
(*   SpecGen   - the generator pipelines around a processor's lifetime     *)
(*   SpecOwn   - SpecProc together with the temp-* sweep of the factory    *)
(*               functions                                                 *)
(*   SpecEngine- engine selection and the dispatch of processor methods    *)
(*   SpecPipe  - the background-removal pipelines, stage by stage          *)
(*   SpecIco   - FaviconGenerator.generateICOFavicon and its PNG fallback  *)
(*   SpecSave  - ImageProcessor.save, statement by statement              *)
(*   SpecXf    - the paths each transform reads and writes                 *)
(*   SpecFac   - the generateMessaging / generatePlatforms factories       *)
(*   SpecOg    - BaseOpenGraphGenerator.generate and getGeneratedFiles     *)
(*   SpecTasks - ImageProcessor.generateSizes, its size tasks interleaved  *)
(*               with the cleanup() of its finally block                   *)
(*   SpecKey   - makeBackgroundTransparent, pixel by pixel                 *)
(***************************************************************************)
EXTENDS Integers, Naturals, Sequences, FiniteSets, TLC

VARIABLES
    engine,      \* ImageProcessor.engine (static): "magick" | "jimp"
    mockMode,    \* MOCK_MODE
    rz,          \* the resize() call in progress: arguments, position, locals
    tempFiles,   \* tempFiles[p]: the registry of processor instance p
    disk,        \* disk[n]: 0 if no file is at temp path n, else the processor
                 \* whose operation wrote the file that is there
    orphaned,    \* temp paths whose file outlived a cleanup() of its writer
                 \* because the unlink failed (history of the storage)
    last,        \* the most recently completed ImageProcessor call
    inf,         \* the inferBgFromRGBA() call in progress: arguments and locals
    img,         \* what the scanned raster contained (history of the input)
    gp,          \* the generator pipeline in progress
    call,        \* the ImageProcessor method call in progress, as far as
                 \* engine dispatch goes
    selected,    \* the argument of the most recent setEngine call (history)
    tp,          \* the background-removal pipeline in progress
    ico,         \* the generateICOFavicon call in progress
    sv,          \* the ImageProcessor.save() call in progress
    fac,         \* the generateMessaging / generatePlatforms call in progress
    og,          \* a BaseOpenGraphGenerator instance and its generate() call
    tasks,       \* the async tasks in flight on one processor instance
    xf           \* the transform call in progress, as far as the paths it
                 \* reads and writes go

vars == <<engine, mockMode, rz, tempFiles, disk, orphaned, last, inf, img, gp,
          call, selected, tp, ico, sv, fac, og, tasks, xf>>
procVars == <<tempFiles, disk, orphaned, last>>
inferVars == <<inf, img>>
dispatchVars == <<call, selected>>
pipeVars == <<tp, ico>>
lateVars == <<sv, fac, og, tasks, xf>>

----------------------------------------------------------------------------
(* Bounds                                                                  *)

MaxSrc == 25        \* largest source side (after zoom) drawn in SpecFit
MaxTarget == 7      \* largest target side drawn in SpecFit
NumNames == 2       \* distinct temp paths the name generator can produce
MaxTemp == 4        \* most registry entries, over all instances, explored
MaxSide == 5        \* largest raster side scanned in SpecInfer
MaxCalls == 3       \* generate() calls on one generator instance explored
NumSizes == 2       \* sizes per loop / per generateSizes call explored
KeySide == 5        \* side of the raster handed to makeBackgroundTransparent

----------------------------------------------------------------------------
(* Arithmetic of JavaScript numbers (IEEE-754 binary64) on small integers  *)

Max2(a, b) == IF a >= b THEN a ELSE b
Min2(a, b) == IF a <= b THEN a ELSE b

RECURSIVE Pow2(_)
Pow2(n) == IF n = 0 THEN 1 ELSE 2 * Pow2(n - 1)

\* 2^k mod s, without ever forming 2^k
RECURSIVE Pow2Mod(_, _)
Pow2Mod(k, s) == IF k = 0 THEN 1 % s ELSE (2 * Pow2Mod(k - 1, s)) % s

\* floor(log2(n/d)) for positive integers n, d: the binary exponent of n/d
RECURSIVE FloorLog2Up(_, _)
FloorLog2Up(n, d) == IF n >= 2 * d THEN 1 + FloorLog2Up(n, 2 * d) ELSE 0
RECURSIVE FloorLog2Down(_, _)
FloorLog2Down(n, d) == IF n < d THEN FloorLog2Down(2 * n, d) - 1 ELSE 0
FloorLog2(n, d) == IF n >= d THEN FloorLog2Up(n, d) ELSE FloorLog2Down(n, d)

\* The double q = fl(w/s) differs from w/s by RoundErr(w,s) / (s * 2^k),
\* k = 52 - FloorLog2(w,s) (52 fraction bits): round-to-nearest of w*2^k/s to an integer.
\* (No ties occur: w*2^k/s is a half-integer only if w/s is itself a double.)
RoundErr(w, s) ==
    LET k == 52 - FloorLog2(w, s)
        r == (w * Pow2Mod(k, s)) % s
    IN  IF 2 * r < s THEN 0 - r ELSE s - r

\* Math.ceil(a * (w / s)) as JavaScript evaluates it: the division is rounded
\* to a double, the product is rounded to a double, then the ceiling is taken.
\* When a*w/s is not an integer the roundings cannot cross an integer; when it
\* is an integer N, the product is N + a*RoundErr/(s*2^k), which rounds to the
\* double above N exactly when that excess is more than half an ulp of N.
CeilMulDiv(a, w, s) ==
    IF (a * w) % s # 0
    THEN ((a * w) \div s) + 1
    ELSE LET N == (a * w) \div s
             m == FloorLog2(N, 1) - FloorLog2(w, s)
         IN  IF 2 * a * RoundErr(w, s) > s * Pow2(m) THEN N + 1 ELSE N

\* Math.floor(n / 2) for an integer n of either sign
FloorHalf(n) == IF n >= 0 THEN n \div 2 ELSE 0 - ((1 - n) \div 2)

\* Math.round(s / c) for integers s >= 0, c > 0
RoundDiv(s, c) == (2 * s + c) \div (2 * c)

----------------------------------------------------------------------------
(* Strings are sequences of one-character strings                          *)

StrTransparent == <<"t","r","a","n","s","p","a","r","e","n","t">>
StrNone == <<"n","o","n","e">>
StrWhiteHex == <<"#","f","f","f","f","f","f">>
StrNavyHex == <<"#","1","a","2","b","3","c">>

DecDigits == <<"0","1","2","3","4","5","6","7","8","9">>
HexDigits == <<"0","1","2","3","4","5","6","7","8","9","a","b","c","d","e","f">>

\* Number-to-string conversion of a non-negative integer (template literal)
RECURSIVE NumToStr(_)
NumToStr(n) ==
    IF n < 10 THEN <<DecDigits[n + 1]>>
    ELSE NumToStr(n \div 10) \o <<DecDigits[(n % 10) + 1]>>

IsHexDigit(c) == \E i \in 1..16 : HexDigits[i] = c
HexVal(c) == (CHOOSE i \in 1..16 : HexDigits[i] = c) - 1

\* String.prototype.substring(a, b), 0-based, clamped to the string
SubString(s, a, b) ==
    LET lo == Min2(a, Len(s))
        hi == Min2(b, Len(s))
    IN  IF lo >= hi THEN <<>> ELSE SubSeq(s, lo + 1, hi)

\* String.prototype.replace('#', ''): removes the first '#' only
ReplaceHash(s) ==
    IF \E i \in 1..Len(s) : s[i] = "#"
    THEN LET i == CHOOSE j \in 1..Len(s) :
                      s[j] = "#" /\ \A k \in 1..(j - 1) : s[k] # "#"
         IN  SubSeq(s, 1, i - 1) \o SubSeq(s, i + 1, Len(s))
    ELSE s

\* parseInt(s, 16) || 0 : the longest prefix of hex digits is converted, the
\* rest is ignored; no leading hex digit gives NaN, which `|| 0` turns into 0.
\* A leading "0x" is a radix prefix: the digits after it are the number.
RECURSIVE HexPrefixVal(_, _)
HexPrefixVal(s, acc) ==
    IF s = <<>> \/ ~IsHexDigit(Head(s)) THEN acc
    ELSE HexPrefixVal(Tail(s), 16 * acc + HexVal(Head(s)))

ParseInt16Or0(s) ==
    IF Len(s) >= 2 /\ s[1] = "0" /\ s[2] = "x"
    THEN HexPrefixVal(SubSeq(s, 3, Len(s)), 0)
    ELSE HexPrefixVal(s, 0)

\* String.prototype.indexOf(pat), 1-based; 0 when pat does not occur
IndexOf(s, pat) ==
    LET hits == {i \in 1..(Len(s) - Len(pat) + 1) :
                    SubSeq(s, i, i + Len(pat) - 1) = pat}
    IN  IF hits = {} THEN 0 ELSE CHOOSE i \in hits : \A j \in hits : i <= j

\* String.prototype.replace(pat, by) with a string pattern: the first
\* occurrence only, wherever in the string it is
ReplaceFirst(s, pat, by) ==
    LET i == IndexOf(s, pat)
    IN  IF i = 0 THEN s
        ELSE SubSeq(s, 1, i - 1) \o by \o SubSeq(s, i + Len(pat), Len(s))

\* path.extname(p).slice(1): what follows the last '.' of the last path
\* segment, '' if that segment has no '.' or only a leading one
ExtName(p) ==
    LET slashes == {i \in 1..Len(p) : p[i] = "/"}
        start == IF slashes = {} THEN 1
                 ELSE 1 + CHOOSE i \in slashes : \A j \in slashes : j <= i
        dots == {i \in (start + 1)..Len(p) : p[i] = "."}
    IN  IF dots = {} THEN <<>>
        ELSE SubSeq(p, 1 + (CHOOSE i \in dots : \A j \in dots : j <= i), Len(p))

StrDotIco == <<".","i","c","o">>
StrDotPng == <<".","p","n","g">>
StrIco == <<"i","c","o">>
StrPng == <<"p","n","g">>
StrFaviconIco == <<"/","f","a","v","i","c","o","n",".","i","c","o">>
StrDotSvg == <<".","s","v","g">>
StrJpg == <<"j","p","g">>
StrJpeg == <<"j","p","e","g">>
StrTif == <<"t","i","f">>
StrTiff == <<"t","i","f","f">>
StrWebp == <<"w","e","b","p">>

\* String.prototype.toLowerCase(), over the letters the paths are made of
ToLowerCase(str) ==
    [i \in 1..Len(str) |->
        CASE str[i] = "J" -> "j"
          [] str[i] = "P" -> "p"
          [] str[i] = "G" -> "g"
          [] OTHER -> str[i]]
StrFaviconSvg == <<"/","f","a","v","i","c","o","n",".","s","v","g">>
StrSafariSvg == <<"/","s","a","f","a","r","i",".","s","v","g">>

parseHexToRgb(hex) ==
    LET cleaned == ReplaceHash(hex)
    IN  [r |-> ParseInt16Or0(SubString(cleaned, 0, 2)),
         g |-> ParseInt16Or0(SubString(cleaned, 2, 4)),
         b |-> ParseInt16Or0(SubString(cleaned, 4, 6))]

\* result type of inferBackgroundColor: { bg: RGBA, isTransparentBg }
BgResult(r, g, b, alpha, isT) ==
    [bg |-> [r |-> r, g |-> g, b |-> b, alpha |-> alpha], isTransparentBg |-> isT]

rgbaToColorString(bg, isTransparent) ==
    IF isTransparent \/ bg.alpha = 0 THEN StrTransparent
    ELSE <<"r","g","b","(">> \o NumToStr(bg.r) \o <<",">> \o NumToStr(bg.g)
         \o <<",">> \o NumToStr(bg.b) \o <<")">>

----------------------------------------------------------------------------
(* Initial registry and storage                                            *)

Procs == {1, 2}              \* an ImageProcessor instance and another one
TempNames == 1..NumNames     \* `temp-${Date.now()}-${random}.png` values

\* a completed call: the operation, the instance, how it settled, and for
\* cleanup() the number of registry entries it found, the paths it called
\* fs.unlink on and the ones whose unlink failed
NoCall == [op |-> "none", proc |-> 0, had |-> 0, outcome |-> "none",
           attempted |-> {}, failed |-> {}]
Completed(op, p, had) ==
    [op |-> op, proc |-> p, had |-> had, outcome |-> "resolved",
     attempted |-> {}, failed |-> {}]

InitFs ==
    /\ tempFiles = [p \in Procs |-> <<>>]
    /\ disk = [n \in TempNames |-> 0]
    /\ orphaned = {}
    /\ last = NoCall

\* the sample pixels rasters are made of: index -> RGBA bytes
Palette ==
    << [r |-> 255, g |-> 0, b |-> 0, a |-> 255],
       [r |-> 0, g |-> 0, b |-> 255, a |-> 10],
       [r |-> 18, g |-> 52, b |-> 86, a |-> 255],
       [r |-> 77, g |-> 77, b |-> 77, a |-> 9] >>
Pixels == 1..Len(Palette)

NoResult == [status |-> "none",
             value |-> [bg |-> [r |-> 0, g |-> 0, b |-> 0, alpha |-> 0],
                        isTransparentBg |-> FALSE]]

\* inferBgFromRGBA(data, width, height, opts) before its loop, lines 794-808;
\* dataLen is data.length, the number of bytes the buffer holds
InferCall(width, height, dataLen) ==
    [pc |-> "scan", width |-> width, height |-> height, dataLen |-> dataLen,
     pos |-> 0,
     hist |-> <<>>, totalBorder |-> 0, transparentCount |-> 0,
     sumRAll |-> 0, sumGAll |-> 0, sumBAll |-> 0, countAll |-> 0,
     result |-> NoResult]

NoImage == [frame |-> [c \in Pixels |-> 0], interior |-> {}]

InitInferIdle ==
    /\ inf = [InferCall(0, 0, 0) EXCEPT !.pc = "idle"]
    /\ img = NoImage

\* a generator pipeline before its first statement; `pending` are the
\* processors it has run a transform on and not yet called cleanup() on
Pipeline(kind) ==
    [kind |-> kind, pc |-> "start", proc |-> 1, branch |-> "plain", iter |-> 1,
     tasks |-> <<>>, pending |-> {}, exit |-> "none"]

InitGenIdle == gp = [Pipeline("none") EXCEPT !.pc = "idle"]

\* an error a method call rejects with: where it comes from and the
\* operation its message names ("" if the message names none)
NoError == [from |-> "none", names |-> ""]

\* a call of an ImageProcessor method before its first statement.  `via` is
\* the implementation the call branched to and `at` the most recent setEngine
\* argument at that moment; inferVia / inferAt are the same for the
\* inferBackgroundColor() call inside resize(); `invoked` counts the runs of
\* the engine's transform
MethodCall(op, autoDetect, format) ==
    [op |-> op, pc |-> "start", autoDetect |-> autoDetect, format |-> format,
     inferVia |-> "none", inferAt |-> "none", via |-> "none", at |-> "none",
     invoked |-> 0, outcome |-> "none", error |-> NoError]

NoMethod == [MethodCall("none", FALSE, "png") EXCEPT !.pc = "idle"]

InitDispatchIdle ==
    /\ call = NoMethod
    /\ selected = engine

\* a background-removal pipeline before its first statement: which function
\* it is, whether the source is an .svg file, the branch (the try block or
\* the catch block) and the index of the stage to run next, the stages run so
\* far with the tool each one invoked, and how the function ended
\* dir is config.output.path, saved what the catch block's save() left at
\* the path it wrote and output what is at the output path ("none": no file)
BgPipeline(kind, sourceIsSvg, dir) ==
    [kind |-> kind, sourceIsSvg |-> sourceIsSvg, dir |-> dir, pc |-> "run",
     branch |-> "main", step |-> 1, stages |-> <<>>, warned |-> FALSE,
     saved |-> "none", output |-> "none", exit |-> "none"]

NoBgPipeline == [BgPipeline("none", FALSE, <<>>) EXCEPT !.pc = "idle"]
\* generateICOFavicon(), favicon.ts 102 and 126-127: the output path
\* and the path the catch block saves to, for an output directory
IcoOutputPath(dir) == dir \o StrFaviconIco
IcoPngPath(dir) == ReplaceFirst(IcoOutputPath(dir), StrDotIco, StrDotPng)

\* a generateICOFavicon() call before its first statement: the output
\* directory, the encoding of the file at each path it writes ("none": no
\* file), whether the icon-container encode has failed, whether the warning
\* was emitted, the block a rejection came from and how the call ended
IcoCall(dir) ==
    [pc |-> "resize", branch |-> "try", dir |-> dir,
     files |-> [f \in {IcoOutputPath(dir), IcoPngPath(dir)} |-> "none"],
     encodeFailed |-> FALSE, warned |-> FALSE, threwIn |-> "none",
     exit |-> "none"]

NoIco == [IcoCall(<<>>) EXCEPT !.pc = "idle"]

InitPipeIdle ==
    /\ tp = NoBgPipeline
    /\ ico = NoIco

\* a save(outputPath, options) call before its first statement: the path,
\* options.format (<<>> if not given), the local `format`, whether the output
\* directory was created, the format the encoder was asked for (StrNone: no
\* encoder was invoked), what was written at the path, and how the call ended
SaveCall(outputPath, optFormat) ==
    [pc |-> "start", outputPath |-> outputPath, optFormat |-> optFormat,
     format |-> <<>>, dirMade |-> FALSE, encoder |-> StrNone,
     written |-> "none", outcome |-> "none", error |-> "none"]

NoSave == [SaveCall(<<>>, <<>>) EXCEPT !.pc = "idle"]
\* a generateMessaging / generatePlatforms call before its first statement:
\* which of the functions of that name it is, the options that are true (the
\* others are false or omitted), the option tests still to run, the
\* generatedFiles list of the generator the call shares, the entries pushed
\* so far, and how the call ended
FactoryCall(fn, enabled, tests) ==
    [fn |-> fn, pc |-> "start", enabled |-> enabled, tests |-> tests,
     generatedFiles |-> <<>>, results |-> <<>>, exit |-> "none"]

NoFactory == [FactoryCall("none", {}, <<>>) EXCEPT !.pc = "idle"]
\* a BaseOpenGraphGenerator instance after construction: its generatedFiles
\* list, the files in config.output.path, the generate() call in progress
\* (its filename, "" if none was given) and the number of calls, the
\* filename and the outcome of the calls so far
NewGenerator(generic) ==
    [generic |-> generic, pc |-> "idle", generatedFiles |-> <<>>, output |-> {},
     filename |-> "", calls |-> 0, exit |-> "none"]

NoOg == NewGenerator(FALSE)

\* a generateSizes(sizes, ...) call before its first statement, on a new
\* processor: whether the options ask for background detection
\* (autoDetectBackground with fit 'contain'), the registry this.tempFiles,
\* where the task of each size stands, the temp files on storage, the
\* unlinks cleanup() is awaiting, how the call settled, and three records of
\* the past: the paths ever pushed, the paths cleanup() called fs.unlink on,
\* and the paths deleted under a task that was using them.  The temp path
\* of the task of size t is named t.
GenerateSizesCall(autoDetect) ==
    [pc |-> "start", autoDetect |-> autoDetect, tempFiles |-> <<>>,
     task |-> [t \in 1..NumSizes |-> "unstarted"], files |-> {},
     unlinking |-> {}, outcome |-> "none", pushed |-> {}, attempted |-> {},
     deletedInUse |-> {}]

NoTasks == [GenerateSizesCall(FALSE) EXCEPT !.pc = "idle"]

\* a path: the file the caller supplied, or a temp file named
\* `${prefix}-${Date.now()}-${Math.random()...}.png`, `stamp` standing for
\* the timestamp and the random suffix together
UserFile == [prefix |-> "file", stamp |-> 0]
TempFile(prefix, stamp) == [prefix |-> prefix, stamp |-> stamp]
NoPath == [prefix |-> "none", stamp |-> 0]

\* a resize / addText / applyColor / createSocialPreview call before its
\* first statement: the processor's source, the inputFile argument (of
\* addText and applyColor), the methods still to run, the file the next one
\* reads, each run's input and output, and the path returned
TransformCall(op, source, inputFile, program) ==
    [op |-> op, pc |-> "run", source |-> source, inputFile |-> inputFile,
     program |-> program, currentFile |-> inputFile, runs |-> <<>>,
     returned |-> NoPath, exit |-> "none"]

NoTransform == [TransformCall("none", NoPath, NoPath, <<>>) EXCEPT !.pc = "idle"]

InitLateIdle ==
    /\ sv = NoSave
    /\ fac = NoFactory
    /\ og = NoOg
    /\ tasks = NoTasks
    /\ xf = NoTransform

----------------------------------------------------------------------------
(* ImageProcessor.resize                                                   *)

Fits == {"cover", "contain", "fill"}
Engines == {"magick", "jimp"}

\* what `await this.inferBackgroundColor()` can deliver to resize():
\* a rejection ("threw") or a result of the active implementation
MockBgResult == BgResult(255, 255, 255, 1, FALSE)
InferResults ==
    { BgResult(0, 0, 0, 0, TRUE),          \* transparent border
      BgResult(255, 255, 255, 1, FALSE),   \* too few samples / white
      BgResult(255, 0, 0, 1, FALSE),
      BgResult(18, 52, 86, 1, FALSE),
      BgResult(5, 0, 9, 1, FALSE) }
Settled(status, value) == [status |-> status, value |-> value]
NotInferred == Settled("none", BgResult(0, 0, 0, 0, FALSE))
InferThrew == Settled("threw", BgResult(0, 0, 0, 0, FALSE))
InferOutcomes ==
    IF mockMode THEN {Settled("ok", MockBgResult)}
    ELSE {Settled("ok", v) : v \in InferResults} \cup {InferThrew}

\* caller-supplied `background` option values
Backgrounds == {StrTransparent, StrWhiteHex, StrNavyHex}

\* computeScale(mode): the selected quotient, as numerator and denominator.
\* Math.max / Math.min compare the two doubles; they are ordered as the exact
\* quotients are, and equal exactly when the quotients are equal.
computeScaleCoverMin(width, height, srcW, srcH, mode) ==
    IF width * srcH <= height * srcW
    THEN [num |-> width, den |-> srcW] ELSE [num |-> height, den |-> srcH]

computeScale(width, height, srcW, srcH, mode) ==
    LET wFirst == [num |-> width, den |-> srcW]
        hFirst == [num |-> height, den |-> srcH]
        wLess == width * srcH <= height * srcW
    IN  IF mode = "cover"
        THEN (IF wLess THEN hFirst ELSE wFirst)     \* Math.max
        ELSE (IF wLess THEN wFirst ELSE hFirst)     \* Math.min (fill, contain)

\* the first img.resize(...) of the jimp branch: the scaled bitmap size
ScaledSize(width, height, srcW, srcH, fit) ==
    LET scale == computeScale(width, height, srcW, srcH, fit)
    IN  <<Max2(1, CeilMulDiv(srcW, scale.num, scale.den)),
          Max2(1, CeilMulDiv(srcH, scale.num, scale.den))>>

\* bgColor of the contain canvas, as the four bytes of the packed word
CanvasColor(finalBackground) ==
    LET c == parseHexToRgb(finalBackground)
    IN  IF finalBackground = StrTransparent
        THEN [r |-> 0, g |-> 0, b |-> 0, a |-> 0]
        ELSE [r |-> c.r % 256, g |-> c.g % 256, b |-> c.b % 256, a |-> 255]

NoColor == [r |-> 0, g |-> 0, b |-> 0, a |-> 0]

\* the jimp branch after Jimp.read: locals and the written bitmap
JimpGeometryUncentred(width, height, srcW, srcH, fit, finalBackground) ==
    LET sc == ScaledSize(width, height, srcW, srcH, fit)
    IN  CASE fit = "cover" ->
               LET x == Max2(0, sc[1] - width)
                   y == Max2(0, sc[2] - height)
               IN  [scaled |-> sc, off |-> <<x, y>>,
                    out |-> <<Min2(width, sc[1]), Min2(height, sc[2])>>,
                    fill |-> NoColor, placed |-> "crop"]
          [] fit = "contain" ->
               LET x == FloorHalf(width - sc[1])
                   y == FloorHalf(height - sc[2])
               IN  [scaled |-> sc, off |-> <<x, y>>,
                    out |-> <<width, height>>,
                    fill |-> CanvasColor(finalBackground), placed |-> "composite"]
          [] OTHER ->
               [scaled |-> sc, off |-> <<0, 0>>, out |-> <<width, height>>,
                fill |-> NoColor, placed |-> "resize"]

JimpGeometry(width, height, srcW, srcH, fit, finalBackground) ==
    LET sc == ScaledSize(width, height, srcW, srcH, fit)
    IN  CASE fit = "cover" ->
               LET x == Max2(0, FloorHalf(sc[1] - width))
                   y == Max2(0, FloorHalf(sc[2] - height))
               IN  [scaled |-> sc, off |-> <<x, y>>,
                    out |-> <<Min2(width, sc[1]), Min2(height, sc[2])>>,
                    fill |-> NoColor, placed |-> "crop"]
          [] fit = "contain" ->
               LET x == FloorHalf(width - sc[1])
                   y == FloorHalf(height - sc[2])
               IN  [scaled |-> sc, off |-> <<x, y>>,
                    out |-> <<width, height>>,
                    fill |-> CanvasColor(finalBackground), placed |-> "composite"]
          [] OTHER ->
               [scaled |-> sc, off |-> <<0, 0>>, out |-> <<width, height>>,
                fill |-> NoColor, placed |-> "resize"]

\* the argument list of the magick branch (the parts that depend on options)
MagickArgs(width, height, fit, finalBackground) ==
    CASE fit = "contain" ->
           [resize |-> <<width, height, "">>, gravity |-> "center",
            background |-> IF finalBackground = StrTransparent
                           THEN StrNone ELSE finalBackground,
            extent |-> <<width, height>>]
      [] fit = "cover" ->
           [resize |-> <<width, height, "^">>, gravity |-> "center",
            background |-> <<>>, extent |-> <<width, height>>]
      [] OTHER ->
           [resize |-> <<width, height, "!">>, gravity |-> "",
            background |-> <<>>, extent |-> <<0, 0>>]

NoArgs == [resize |-> <<0, 0, "">>, gravity |-> "", background |-> <<>>,
           extent |-> <<0, 0>>]
NoGeometry == [scaled |-> <<0, 0>>, off |-> <<0, 0>>, out |-> <<0, 0>>,
               fill |-> NoColor, placed |-> "none"]

\* a resize(width, height, options) call on a source of srcW x srcH pixels
\* (the bitmap size after the optional zoom), before its first statement
ResizeCall(width, height, fit, background, autoDetect, srcW, srcH) ==
    [pc |-> "call", width |-> width, height |-> height, fit |-> fit,
     background |-> background, autoDetectBackground |-> autoDetect,
     srcW |-> srcW, srcH |-> srcH,
     finalBackground |-> background, inferred |-> NotInferred, ops |-> <<>>,
     geo |-> NoGeometry, args |-> NoArgs, error |-> ""]

\* lines 244-261: option defaults and background auto-detection
ResizeDetectAlways ==
    /\ rz.pc = "call"
    /\ \E res \in InferOutcomes :
           rz' = [rz EXCEPT !.pc = "engine",
                            !.inferred = res,
                            !.ops = Append(@, "infer:source"),
                            !.finalBackground =
                                IF res.status = "threw" THEN rz.background
                                ELSE rgbaToColorString(res.value.bg,
                                                       res.value.isTransparentBg)]
    /\ UNCHANGED <<engine, mockMode, procVars, inferVars, gp, dispatchVars, pipeVars, lateVars>>

ResizeDetect ==
    /\ rz.pc = "call"
    /\ IF rz.autoDetectBackground /\ rz.fit = "contain"
       THEN \E res \in InferOutcomes :
              rz' = [rz EXCEPT !.pc = "engine",
                               !.inferred = res,
                               !.ops = Append(@, "infer:source"),
                               !.finalBackground =
                                   IF res.status = "threw" THEN rz.background
                                   ELSE rgbaToColorString(res.value.bg,
                                                          res.value.isTransparentBg)]
       ELSE rz' = [rz EXCEPT !.pc = "engine"]
    /\ UNCHANGED <<engine, mockMode, procVars, inferVars, gp, dispatchVars, pipeVars, lateVars>>

\* lines 263-266: mock mode copies the source to a temp path
ResizeMock ==
    /\ rz.pc = "engine"
    /\ mockMode
    /\ rz' = [rz EXCEPT !.pc = "done", !.ops = Append(@, "copy:source")]
    /\ UNCHANGED <<engine, mockMode, procVars, inferVars, gp, dispatchVars, pipeVars, lateVars>>

\* lines 268-320: the jimp branch
ResizeJimp ==
    /\ rz.pc = "engine"
    /\ ~mockMode
    /\ engine = "jimp"
    /\ \E readOk \in BOOLEAN :
         IF readOk
         THEN LET g == JimpGeometry(rz.width, rz.height, rz.srcW, rz.srcH,
                                    rz.fit, rz.finalBackground)
              IN  rz' = [rz EXCEPT !.pc = "done", !.geo = g,
                                   !.ops = @ \o <<"read:source", "resize", g.placed, "write">>]
         ELSE rz' = [rz EXCEPT !.pc = "failed", !.error = "Jimp.read",
                               !.ops = Append(@, "read:source")]
    /\ UNCHANGED <<engine, mockMode, procVars, inferVars, gp, dispatchVars, pipeVars, lateVars>>

\* lines 322-369: the magick branch
ResizeMagick ==
    /\ rz.pc = "engine"
    /\ ~mockMode
    /\ engine = "magick"
    /\ \E execOk \in BOOLEAN :
         rz' = [rz EXCEPT !.pc = IF execOk THEN "done" ELSE "failed",
                          !.args = MagickArgs(rz.width, rz.height, rz.fit,
                                              rz.finalBackground),
                          !.error = IF execOk THEN ""
                                    ELSE "ImageMagick resize failed",
                          !.ops = Append(@, "magick:source")]
    /\ UNCHANGED <<engine, mockMode, procVars, inferVars, gp, dispatchVars, pipeVars, lateVars>>

\* SpecFit: the fallback engine's resize over all sizes and fit modes
InitFit ==
    /\ engine = "jimp"
    /\ mockMode = FALSE
    /\ \E w \in 1..MaxTarget, h \in 1..MaxTarget, sw \in 1..MaxSrc, sh \in 1..MaxSrc,
          fit \in Fits :
         rz = ResizeCall(w, h, fit, StrTransparent, FALSE, sw, sh)
    /\ InitFs
    /\ InitInferIdle
    /\ InitGenIdle
    /\ InitDispatchIdle
    /\ InitLateIdle
    /\ InitPipeIdle

NextFit == ResizeDetect \/ ResizeJimp

SpecFit == InitFit /\ [][NextFit]_vars

\* SpecBg: resize over engines, mock mode, fits, backgrounds and inference
BgSides == {2, 3}
InitBg ==
    /\ engine \in Engines
    /\ mockMode \in BOOLEAN
    /\ \E w \in BgSides, h \in BgSides, fit \in Fits, bg \in Backgrounds,
          auto \in BOOLEAN :
         rz = ResizeCall(w, h, fit, bg, auto, 2, 3)
    /\ InitFs
    /\ InitInferIdle
    /\ InitGenIdle
    /\ InitDispatchIdle
    /\ InitLateIdle
    /\ InitPipeIdle

NextBg == ResizeDetect \/ ResizeMock \/ ResizeJimp \/ ResizeMagick

SpecBg == InitBg /\ [][NextBg]_vars

----------------------------------------------------------------------------
(* Claims about resize                                                     *)

JimpDone == rz.pc = "done" /\ ~mockMode /\ engine = "jimp"
MagickDone == rz.pc = "done" /\ ~mockMode /\ engine = "magick"

\* C3: for every source size and target size >= 1 and every fit mode, the
\* raster written by the fallback-engine resize is exactly width x height.
C3_ExactDimension ==
    JimpDone => rz.geo.out = <<rz.width, rz.height>>

\* C3 witness: a cover resize whose scaled bitmap overshoots the target in
\* one direction and was cropped to the exact size.
C3_Witness ==
    /\ JimpDone /\ rz.fit = "cover"
    /\ rz.geo.scaled[2] > rz.height
    /\ rz.geo.scaled[1] = rz.width
    /\ rz.geo.out = <<rz.width, rz.height>>

\* C4: in contain mode the source is never cropped: the scaled bitmap fits
\* inside the canvas, both paste offsets are >= 0 and the padding on
\* opposite sides differs by at most one pixel.
C4_ContainNoCrop ==
    (JimpDone /\ rz.fit = "contain") =>
        /\ rz.geo.scaled[1] <= rz.width
        /\ rz.geo.scaled[2] <= rz.height
        /\ rz.geo.off[1] >= 0
        /\ rz.geo.off[2] >= 0
        /\ (rz.width - rz.geo.scaled[1] - rz.geo.off[1]) - rz.geo.off[1] \in {0, 1}
        /\ (rz.height - rz.geo.scaled[2] - rz.geo.off[2]) - rz.geo.off[2] \in {0, 1}

\* C5: in cover mode the scaled bitmap covers the target, the crop rectangle
\* (x, y, width, height) lies inside it and is centered to within one pixel.
C5_CoverNoBorder ==
    (JimpDone /\ rz.fit = "cover") =>
        /\ rz.geo.scaled[1] >= rz.width
        /\ rz.geo.scaled[2] >= rz.height
        /\ rz.geo.off[1] >= 0
        /\ rz.geo.off[2] >= 0
        /\ rz.geo.off[1] + rz.width <= rz.geo.scaled[1]
        /\ rz.geo.off[2] + rz.height <= rz.geo.scaled[2]
        /\ (rz.geo.scaled[1] - rz.width - rz.geo.off[1]) - rz.geo.off[1] \in {0, 1}
        /\ (rz.geo.scaled[2] - rz.height - rz.geo.off[2]) - rz.geo.off[2] \in {0, 1}

\* C5 witness: a cover resize that crops an odd surplus, so the crop cannot
\* be centered exactly
C5_Witness ==
    /\ JimpDone /\ rz.fit = "cover"
    /\ rz.geo.scaled[1] - rz.width = 3
    /\ rz.geo.off[1] = 1

\* the fill the inferred background denotes
InferredFill(v) ==
    IF v.isTransparentBg THEN [r |-> 0, g |-> 0, b |-> 0, a |-> 0]
    ELSE [r |-> v.bg.r, g |-> v.bg.g, b |-> v.bg.b, a |-> 255]

\* C6: with fit = contain and autoDetectBackground, when inference succeeds
\* it ran on the original source before any other operation, and the fill of
\* the contain canvas is the inferred color (or fully transparent), under
\* both engines.
C6_InferredFillUsed ==
    (rz.pc = "done" /\ ~mockMode /\ rz.fit = "contain"
        /\ rz.autoDetectBackground /\ rz.inferred.status = "ok") =>
        /\ rz.ops[1] = "infer:source"
        /\ engine = "jimp" => rz.geo.fill = InferredFill(rz.inferred.value)
        /\ engine = "magick" =>
              rz.args.background =
                 IF rz.inferred.value.isTransparentBg THEN StrNone
                 ELSE <<"r","g","b","(">> \o NumToStr(rz.inferred.value.bg.r)
                      \o <<",">> \o NumToStr(rz.inferred.value.bg.g)
                      \o <<",">> \o NumToStr(rz.inferred.value.bg.b) \o <<")">>

\* C7: when inference throws, resize goes on with the caller-supplied
\* background as the canvas fill and does not fail because of it; with fit
\* cover or fill, inference is never invoked.
C7_InferenceFailureFallsBack ==
    /\ rz.inferred.status = "threw" =>
          /\ rz.pc \in {"engine", "done", "failed"}
          /\ rz.finalBackground = rz.background
          /\ rz.pc = "failed" => rz.error \in {"Jimp.read", "ImageMagick resize failed"}
          /\ JimpDone => rz.geo.fill = CanvasColor(rz.background)
          /\ MagickDone =>
                rz.args.background =
                   IF rz.background = StrTransparent THEN StrNone ELSE rz.background
    /\ rz.fit \in {"cover", "fill"} =>
          /\ rz.inferred.status = "none"
          /\ \A i \in 1..Len(rz.ops) : rz.ops[i] # "infer:source"

\* C7 witness: inference threw and the jimp canvas was filled with the
\* caller's white background
C7_Witness ==
    /\ JimpDone /\ rz.fit = "contain"
    /\ rz.inferred.status = "threw"
    /\ rz.background = StrWhiteHex
    /\ rz.geo.fill = [r |-> 255, g |-> 255, b |-> 255, a |-> 255]

----------------------------------------------------------------------------
(* Temp artifacts: the registry of each processor and the storage          *)

\* the registry and storage, as one value the transforms map; `written`
\* collects the paths at which a transform has put a file
FsState == [tempFiles |-> tempFiles, disk |-> disk, ok |-> TRUE, written |-> {}]

\* One transform (resize, addText, applyColor) of processor p writing temp
\* path n.  Mock mode: createMockOutputFile writes the file and registers it
\* afterwards; if neither the copy nor the empty write succeeds it throws with
\* nothing registered.  Engine branches: the path is registered first, then
\* the engine runs; a failing engine may or may not have left a file.
TransformRegisterLate(st, p, n, ok, wrote) ==
    IF ~st.ok THEN st
    ELSE IF mockMode
         THEN IF ok
              THEN [tempFiles |-> [st.tempFiles EXCEPT ![p] = Append(@, n)],
                    disk |-> [st.disk EXCEPT ![n] = p], ok |-> TRUE,
                    written |-> st.written \cup {n}]
              ELSE [st EXCEPT !.ok = FALSE]
         ELSE [tempFiles |-> IF ok THEN [st.tempFiles EXCEPT ![p] = Append(@, n)]
                             ELSE st.tempFiles,
               disk |-> IF ok \/ wrote THEN [st.disk EXCEPT ![n] = p] ELSE st.disk,
               ok |-> ok,
               written |-> IF ok \/ wrote THEN st.written \cup {n} ELSE st.written]

Transform(st, p, n, ok, wrote) ==
    IF ~st.ok THEN st
    ELSE IF mockMode
         THEN IF ok
              THEN [tempFiles |-> [st.tempFiles EXCEPT ![p] = Append(@, n)],
                    disk |-> [st.disk EXCEPT ![n] = p], ok |-> TRUE,
                    written |-> st.written \cup {n}]
              ELSE [st EXCEPT !.ok = FALSE]
         ELSE [tempFiles |-> [st.tempFiles EXCEPT ![p] = Append(@, n)],
               disk |-> IF ok \/ wrote THEN [st.disk EXCEPT ![n] = p] ELSE st.disk,
               ok |-> ok,
               written |-> IF ok \/ wrote THEN st.written \cup {n} ELSE st.written]

\* the environment's part in a chain of transforms: the generated names,
\* the first step that fails (0: none) and whether the failing engine left a file
Outcomes(steps, names, failAt, wrote) ==
    [i \in 1..steps |-> [n |-> names[i], ok |-> (failAt = 0 \/ i < failAt),
                         wrote |-> wrote]]

Room(k) == Len(tempFiles[1]) + Len(tempFiles[2]) + k <= MaxTemp

RECURSIVE Chain(_, _, _)
Chain(st, p, os) ==
    IF os = <<>> THEN st
    ELSE Chain(Transform(st, p, Head(os).n, Head(os).ok, Head(os).wrote), p, Tail(os))

\* the chain's effect on the registry, the storage and the call record
ChainEffect(op, p, steps, names, failAt, wrote) ==
    LET st == Chain(FsState, p, Outcomes(steps, names, failAt, wrote))
    IN  /\ (failAt = 0 => ~wrote)
        /\ tempFiles' = st.tempFiles
        /\ disk' = st.disk
        /\ orphaned' = orphaned \ st.written
        /\ last' = [Completed(op, p, 0) EXCEPT
                       !.outcome = IF st.ok THEN "resolved" ELSE "rejected"]

RunChain(op, p, steps) ==
    /\ Room(steps)
    /\ \E names \in [1..steps -> TempNames], failAt \in 0..steps, wrote \in BOOLEAN :
         ChainEffect(op, p, steps, names, failAt, wrote)
    /\ UNCHANGED <<engine, mockMode, rz, inferVars, gp, dispatchVars, pipeVars, lateVars>>

\* resize(), lines 243-370, as far as the registry and the storage go
Resize(p) == RunChain("resize", p, 1)

\* addText(), lines 375-447
AddText(p) == RunChain("addText", p, 1)

\* applyColor(), lines 452-495
ApplyColor(p) == RunChain("applyColor", p, 1)

\* createSocialPreview(), lines 650-706: one mock file, or resize, then
\* applyColor for the gradient template, then addText for the title and for
\* the description; the first failing step ends the call
CreateSocialPreview(p) ==
    \E gradient \in BOOLEAN, title \in BOOLEAN, description \in BOOLEAN :
      RunChain("createSocialPreview", p,
               IF mockMode THEN 1
               ELSE 1 + (IF gradient THEN 1 ELSE 0) + (IF title THEN 1 ELSE 0)
                      + (IF description THEN 1 ELSE 0))

\* cleanup(), lines 900-911: unlink every registered path, ignoring errors,
\* then empty the registry.  `failing` are the paths whose unlink fails: the
\* ones the operating system refuses and the ones with no file.
Registered(p) == {tempFiles[p][i] : i \in 1..Len(tempFiles[p])}

\* (as it would be with Promise.all and no try/catch around fs.unlink)
CleanupEffectRejecting(p, failing) ==
    /\ disk' = [n \in TempNames |->
                  IF n \in Registered(p) \ failing THEN 0 ELSE disk[n]]
    /\ tempFiles' = IF failing = {} THEN [tempFiles EXCEPT ![p] = <<>>]
                    ELSE tempFiles
    /\ orphaned' = (orphaned \ (Registered(p) \ failing))
                       \cup {n \in failing : disk[n] = p}
    /\ last' = [Completed("cleanup", p, Len(tempFiles[p])) EXCEPT
                   !.outcome = IF failing = {} THEN "resolved" ELSE "rejected",
                   !.attempted = Registered(p), !.failed = failing]

CleanupEffect(p, failing) ==
    /\ disk' = [n \in TempNames |->
                  IF n \in Registered(p) \ failing THEN 0 ELSE disk[n]]
    /\ tempFiles' = [tempFiles EXCEPT ![p] = <<>>]
    /\ orphaned' = (orphaned \ (Registered(p) \ failing))
                       \cup {n \in failing : disk[n] = p}
    /\ last' = [Completed("cleanup", p, Len(tempFiles[p])) EXCEPT
                   !.attempted = Registered(p), !.failed = failing]

\* the outcomes fs.unlink can have on the registry of p
Failing(p) ==
    {F \in SUBSET Registered(p) : \A n \in Registered(p) : disk[n] = 0 => n \in F}

Cleanup(p) ==
    /\ \E failing \in Failing(p) : CleanupEffect(p, failing)
    /\ UNCHANGED <<engine, mockMode, rz, inferVars, gp, dispatchVars, pipeVars, lateVars>>

IdleResize == ResizeCall(1, 1, "cover", StrTransparent, FALSE, 1, 1)

InitProc ==
    /\ engine \in Engines
    /\ mockMode \in BOOLEAN
    /\ rz = [IdleResize EXCEPT !.pc = "idle"]
    /\ InitFs
    /\ InitInferIdle
    /\ InitGenIdle
    /\ InitDispatchIdle
    /\ InitLateIdle
    /\ InitPipeIdle

NextProc ==
    \E p \in Procs :
        \/ Resize(p)
        \/ AddText(p)
        \/ ApplyColor(p)
        \/ CreateSocialPreview(p)
        \/ Cleanup(p)

SpecProc == InitProc /\ [][NextProc]_vars

\* C1 (as stated): after a completed cleanup() no temp file that the
\* instance created exists on storage and its registry is empty.
C1_NoTempFileRemains ==
    last.op = "cleanup" =>
        /\ tempFiles[last.proc] = <<>>
        /\ \A n \in TempNames : disk[n] # last.proc

\* C1 (amended): after a completed cleanup() the registry is empty and the
\* only temp files of the instance still on storage are those whose unlink
\* failed in a cleanup() of the instance.
C1_OnlyUndeletableRemain ==
    last.op = "cleanup" =>
        /\ tempFiles[last.proc] = <<>>
        /\ \A n \in TempNames : disk[n] = last.proc => n \in orphaned

\* C1 witness: a cleanup of a registry of several paths, every unlink
\* succeeding, while the other instance's temp file stays on storage
C1_Witness ==
    /\ last.op = "cleanup" /\ last.had >= 2
    /\ \A n \in TempNames : disk[n] # last.proc
    /\ \E n \in TempNames : disk[n] \notin {0, last.proc}

\* C16: no temp path is in the registries of two processor instances.
C16_NoSharedTempPath ==
    \A p \in Procs, q \in Procs :
        p # q => Registered(p) \cap Registered(q) = {}

\* C18: a cleanup() always resolves; it calls fs.unlink on every registered
\* path, the ones whose unlink does not fail are gone afterwards whatever
\* subset fails, the registry is left empty, and a cleanup() that follows
\* another one of the same instance immediately attempts no deletion.
C18_CleanupNeverRejects ==
    [][last'.op = "cleanup" =>
          /\ last'.outcome = "resolved"
          /\ tempFiles'[last'.proc] = <<>>
          /\ last'.attempted = Registered(last'.proc)
          /\ \A n \in Registered(last'.proc) \ last'.failed : disk'[n] = 0
          /\ (last.op = "cleanup" /\ last.proc = last'.proc) =>
                 last'.attempted = {}]_vars

\* C18 witness: a cleanup in which one unlink failed and another succeeded
C18_Witness ==
    /\ last.op = "cleanup" /\ last.outcome = "resolved"
    /\ last.failed # {} /\ last.attempted \ last.failed # {}
    /\ tempFiles[last.proc] = <<>>
    /\ \A n \in last.attempted \ last.failed : disk[n] = 0

\* the `finally` block of generatePlatforms / generateMessaging: every file
\* of process.cwd() whose name starts with 'temp-' is unlinked, errors
\* ignored.  The temp files of a processor are in the directory of its source,
\* which is the working directory or is not; a failing readdir finds nothing.
SweepTempFiles ==
    /\ \E cwdIsSourceDir \in BOOLEAN, failing \in SUBSET TempNames :
         LET found == IF cwdIsSourceDir THEN {n \in TempNames : disk[n] # 0} ELSE {}
         IN  /\ failing \subseteq found
             /\ disk' = [n \in TempNames |-> IF n \in found \ failing THEN 0 ELSE disk[n]]
             /\ orphaned' = orphaned \ (found \ failing)
             /\ last' = [Completed("sweep", 0, 0) EXCEPT
                            !.attempted = found, !.failed = failing]
    /\ UNCHANGED <<engine, mockMode, rz, tempFiles, inferVars, gp, dispatchVars, pipeVars, lateVars>>

\* SpecOwn: processor instances of running pipelines next to a generator
\* function that reaches its `finally` block
NextOwn == NextProc \/ SweepTempFiles

SpecOwn == InitProc /\ [][NextOwn]_vars

\* C17: a temp file in some instance's registry is removed from storage only
\* by a cleanup() of an instance that has it registered.
C17_OnlyOwnerDeletes ==
    [][\A n \in TempNames :
          (disk[n] # 0 /\ disk'[n] = 0 /\ \E q \in Procs : n \in Registered(q)) =>
              (last'.op = "cleanup" /\ n \in Registered(last'.proc))]_vars

----------------------------------------------------------------------------
(* ImageProcessor.inferBgFromRGBA                                          *)

\* default options of inferBackgroundColor, lines 713-720
alphaThreshold == 10
quantBits == 4
\* transparentBorderRatio = 0.8 and the dominant-share limit 0.4, as fractions
transparentBorderRatio == <<4, 5>>
dominantShareLimit == <<2, 5>>
minSamples == 16

\* border = Math.max(2, Math.round(Math.min(width, height) * borderFrac)),
\* borderFrac = 0.05
Border(width, height) == Max2(2, RoundDiv(Min2(width, height), 20))

\* the per-pixel edge test of the loop, line 833
onBorderLeftTopOnly(x, y, width, height) ==
    LET border == Border(width, height)
    IN  x < border \/ y < border

onBorder(x, y, width, height) ==
    LET border == Border(width, height)
    IN  x < border \/ x >= width - border \/ y < border \/ y >= height - border

\* pushPixel, lines 810-828: the histogram is a Map, kept here as the
\* sequence of its bins in insertion order
QuantKey(r, g, b) ==
    LET shift == Pow2(8 - quantBits)
        q == Pow2(quantBits)
    IN  ((r \div shift) * q * q) + ((g \div shift) * q) + (b \div shift)

pushPixel(st, r, g, b) ==
    LET key == QuantKey(r, g, b)
        has == \E i \in 1..Len(st.hist) : st.hist[i].key = key
        hist2 ==
          IF has
          THEN [i \in 1..Len(st.hist) |->
                  IF st.hist[i].key = key
                  THEN [key |-> key, count |-> st.hist[i].count + 1,
                        sumR |-> st.hist[i].sumR + r, sumG |-> st.hist[i].sumG + g,
                        sumB |-> st.hist[i].sumB + b]
                  ELSE st.hist[i]]
          ELSE Append(st.hist, [key |-> key, count |-> 1, sumR |-> r,
                                sumG |-> g, sumB |-> b])
    IN  [st EXCEPT !.hist = hist2, !.sumRAll = @ + r, !.sumGAll = @ + g,
                   !.sumBAll = @ + b, !.countAll = @ + 1]

\* a < alphaThreshold, line 848
IsTransparentSampleInclusive(a) == a <= alphaThreshold
IsTransparentSample(a) == a < alphaThreshold

\* the guard of line 839 passes: the four bytes of the pixel at index
\* (y * width + x) * 4 lie inside the buffer
\* the variant below tests the first byte of the pixel only
InBufferFirstByte(st) == ~(4 * st.pos >= st.dataLen)
InBuffer(st) == ~(4 * st.pos + 3 >= st.dataLen)

\* one iteration of the loop body, lines 833-852, on the pixel at (x, y)
ScanStep(st, px) ==
    LET x == st.pos % st.width
        y == st.pos \div st.width
        next == [st EXCEPT !.pos = @ + 1]
    IN  IF ~onBorder(x, y, st.width, st.height) THEN next
        ELSE IF ~InBuffer(st) THEN next
        ELSE IF IsTransparentSample(px.a)
             THEN [next EXCEPT !.totalBorder = @ + 1, !.transparentCount = @ + 1]
             ELSE pushPixel([next EXCEPT !.totalBorder = @ + 1], px.r, px.g, px.b)

\* transparentRatio >= transparentBorderRatio, lines 856-858
BorderIsTransparentStrict(transparentCount, totalBorder) ==
    /\ totalBorder > 0
    /\ transparentCount * transparentBorderRatio[2]
          > transparentBorderRatio[1] * totalBorder

BorderIsTransparent(transparentCount, totalBorder) ==
    /\ totalBorder > 0
    /\ transparentCount * transparentBorderRatio[2]
          >= transparentBorderRatio[1] * totalBorder

\* countAll < 16, line 862
TooFewSamplesInclusive(countAll) == countAll <= minSamples
TooFewSamples(countAll) == countAll < minSamples

\* the loop of lines 866-871: the first bin, in insertion order, whose count
\* no other bin exceeds
RECURSIVE BestBin(_, _)
BestBin(hist, best) ==
    IF hist = <<>> THEN best
    ELSE BestBin(Tail(hist), IF Head(hist).count > best.count THEN Head(hist) ELSE best)

EmptyBin == [key |-> 0 - 1, count |-> 0, sumR |-> 0, sumG |-> 0, sumB |-> 0]

\* dominantShare < 0.4, lines 873-874
useGlobalMeanInclusive(bestCount, countAll) ==
    bestCount * dominantShareLimit[2] <= dominantShareLimit[1] * countAll
useGlobalMean(bestCount, countAll) ==
    bestCount * dominantShareLimit[2] < dominantShareLimit[1] * countAll

\* lines 856-886: the decision after the loop
DecideFallbackFirst(st) ==
    IF TooFewSamples(st.countAll)
    THEN BgResult(255, 255, 255, 1, FALSE)
    ELSE IF BorderIsTransparent(st.transparentCount, st.totalBorder)
    THEN BgResult(0, 0, 0, 0, TRUE)
    ELSE LET best == BestBin(st.hist, EmptyBin)
         IN  IF useGlobalMean(best.count, st.countAll)
             THEN BgResult(RoundDiv(st.sumRAll, st.countAll),
                           RoundDiv(st.sumGAll, st.countAll),
                           RoundDiv(st.sumBAll, st.countAll), 1, FALSE)
             ELSE BgResult(RoundDiv(best.sumR, best.count),
                           RoundDiv(best.sumG, best.count),
                           RoundDiv(best.sumB, best.count), 1, FALSE)

Decide(st) ==
    IF BorderIsTransparent(st.transparentCount, st.totalBorder)
    THEN BgResult(0, 0, 0, 0, TRUE)
    ELSE IF TooFewSamples(st.countAll)
    THEN BgResult(255, 255, 255, 1, FALSE)
    ELSE LET best == BestBin(st.hist, EmptyBin)
         IN  IF useGlobalMean(best.count, st.countAll)
             THEN BgResult(RoundDiv(st.sumRAll, st.countAll),
                           RoundDiv(st.sumGAll, st.countAll),
                           RoundDiv(st.sumBAll, st.countAll), 1, FALSE)
             ELSE BgResult(RoundDiv(best.sumR, best.count),
                           RoundDiv(best.sumG, best.count),
                           RoundDiv(best.sumB, best.count), 1, FALSE)

\* the frame of a raster, for the record of what was scanned: the pixels
\* less than Border() away from the nearest edge
InFrame(x, y, width, height) ==
    Min2(Min2(x, width - 1 - x), Min2(y, height - 1 - y)) < Border(width, height)

\* one pixel of the raster (any sample, if the buffer holds the pixel) and
\* the loop body runs on it
InferScan ==
    /\ inf.pc = "scan"
    /\ inf.pos < inf.width * inf.height
    /\ IF InBuffer(inf)
       THEN \E c \in Pixels :
              /\ inf' = ScanStep(inf, Palette[c])
              /\ img' = IF InFrame(inf.pos % inf.width, inf.pos \div inf.width,
                                   inf.width, inf.height)
                        THEN [img EXCEPT !.frame[c] = @ + 1]
                        ELSE [img EXCEPT !.interior = @ \cup {c}]
       ELSE /\ inf' = ScanStep(inf, NoColor)
            /\ img' = img
    /\ UNCHANGED <<engine, mockMode, rz, procVars, gp, dispatchVars, pipeVars, lateVars>>

\* the loop is over: lines 856-886
InferDecide ==
    /\ inf.pc = "scan"
    /\ inf.pos = inf.width * inf.height
    /\ inf' = [inf EXCEPT !.pc = "done", !.result = Settled("ok", Decide(inf))]
    /\ UNCHANGED <<engine, mockMode, rz, procVars, img, gp, dispatchVars, pipeVars, lateVars>>

\* lengths of the buffer handed over with width and height: the
\* width * height * 4 bytes of a raster, a buffer cut short in the middle
\* of a pixel about half way through, or an empty buffer
DataLens(width, height) ==
    {len \in {0, 4 * width * height,
              Min2(4 * width * height - 1, 2 * width * height + 3)} : len >= 0}

InitInfer ==
    /\ engine = "magick"
    /\ mockMode = FALSE
    /\ rz = [IdleResize EXCEPT !.pc = "idle"]
    /\ InitFs
    /\ \E w \in 0..MaxSide, h \in 0..MaxSide :
         \E len \in DataLens(w, h) : inf = InferCall(w, h, len)
    /\ img = NoImage
    /\ InitGenIdle
    /\ InitDispatchIdle
    /\ InitLateIdle
    /\ InitPipeIdle

NextInfer == InferScan \/ InferDecide

SpecInfer == InitInfer /\ [][NextInfer]_vars

----------------------------------------------------------------------------
(* Claims about background inference, stated over the scanned raster       *)

RECURSIVE SumOver(_, _)
SumOver(f, S) ==
    IF S = {} THEN 0
    ELSE LET c == CHOOSE d \in S : TRUE IN f[c] + SumOver(f, S \ {c})

OpaquePixels == {c \in Pixels : Palette[c].a >= 10}
FrameTotal == SumOver(img.frame, Pixels)
FrameTransparent == SumOver(img.frame, Pixels \ OpaquePixels)
FrameOpaque == SumOver(img.frame, OpaquePixels)

\* samples of the frame that fall in the histogram bucket of pixel c
SameBucket(c) ==
    {d \in OpaquePixels :
        /\ Palette[d].r \div 16 = Palette[c].r \div 16
        /\ Palette[d].g \div 16 = Palette[c].g \div 16
        /\ Palette[d].b \div 16 = Palette[c].b \div 16}
BucketCount(c) == SumOver(img.frame, SameBucket(c))
ChannelSum(S, ch) ==
    SumOver([d \in Pixels |-> img.frame[d] *
               (CASE ch = "r" -> Palette[d].r [] ch = "g" -> Palette[d].g
                  [] OTHER -> Palette[d].b)], S)

\* m is s/n rounded to a nearest integer
IsRoundedMean(m, s, n) ==
    /\ 2 * (m * n - s) <= n
    /\ 2 * (s - m * n) <= n

IsMeanOf(bg, S) ==
    LET n == SumOver(img.frame, S)
    IN  /\ n > 0
        /\ IsRoundedMean(bg.r, ChannelSum(S, "r"), n)
        /\ IsRoundedMean(bg.g, ChannelSum(S, "g"), n)
        /\ IsRoundedMean(bg.b, ChannelSum(S, "b"), n)

InferDone == inf.pc = "done"
Inferred == inf.result.value

\* C8: if at least 0.8 of the border-frame pixels have alpha < 10 the result
\* is isTransparentBg = true with color (0,0,0), whatever the interior and
\* the other border pixels hold.  (A share is of a frame that has pixels: a
\* buffer too short to hold one complete pixel is not a raster.)
C8_TransparentBorder ==
    (InferDone /\ FrameTotal > 0 /\ 5 * FrameTransparent >= 4 * FrameTotal) =>
        /\ Inferred.isTransparentBg
        /\ Inferred.bg.r = 0 /\ Inferred.bg.g = 0 /\ Inferred.bg.b = 0

\* C8 witness: a raster with an opaque interior pixel and some opaque border
\* pixels, declared transparent
C8_Witness ==
    /\ InferDone
    /\ Inferred.isTransparentBg
    /\ img.interior \cap OpaquePixels # {}
    /\ FrameOpaque > 0

\* C9: if all border-frame pixels are opaque and of one color c, and there
\* are at least 16 of them, the result is not transparent and each channel
\* is within 1 << (8 - quantBits) = 16 of c, for every interior.
C9_UniformBorder ==
    \A c \in OpaquePixels :
        (InferDone /\ FrameTotal >= 16 /\ img.frame[c] = FrameTotal) =>
            /\ ~Inferred.isTransparentBg
            /\ Inferred.bg.r - Palette[c].r \in (0 - 16)..16
            /\ Inferred.bg.g - Palette[c].g \in (0 - 16)..16
            /\ Inferred.bg.b - Palette[c].b \in (0 - 16)..16

\* C9 witness: a uniform red border around an interior pixel of another
\* color, inferred as red
C9_Witness ==
    /\ InferDone
    /\ img.frame[1] = FrameTotal /\ FrameTotal >= 16
    /\ img.interior # {} /\ 1 \notin img.interior
    /\ Inferred.bg.r = 255 /\ Inferred.bg.g = 0 /\ Inferred.bg.b = 0

\* C10: with at least 16 opaque border samples and a border not declared
\* transparent, the color is the rounded mean of the raw R,G,B of a
\* highest-count bucket if that bucket holds at least 0.4 of the opaque
\* samples, and otherwise the rounded mean over all opaque samples.
TopCount ==
    CHOOSE n \in {BucketCount(c) : c \in OpaquePixels} :
        \A c \in OpaquePixels : BucketCount(c) <= n

C10_DominantOrGlobalMean ==
    (InferDone /\ FrameOpaque >= 16 /\ ~(5 * FrameTransparent >= 4 * FrameTotal)) =>
        /\ ~Inferred.isTransparentBg
        /\ IF 5 * TopCount >= 2 * FrameOpaque
           THEN \E c \in OpaquePixels :
                   BucketCount(c) = TopCount /\ IsMeanOf(Inferred.bg, SameBucket(c))
           ELSE IsMeanOf(Inferred.bg, OpaquePixels)

\* C10 witness: no bucket reaches 0.4 of at least 16 opaque samples and the
\* global mean, which is no bucket's mean, was returned
C10_Witness ==
    /\ InferDone /\ FrameOpaque >= 16
    /\ ~Inferred.isTransparentBg
    /\ 5 * TopCount < 2 * FrameOpaque
    /\ IsMeanOf(Inferred.bg, OpaquePixels)
    /\ \A c \in OpaquePixels : ~IsMeanOf(Inferred.bg, SameBucket(c))

\* C11: when the transparent share of the border is below 0.8 and fewer
\* than 16 opaque border samples were collected, the result is white
\* (255,255,255), not transparent, whatever the colors of the samples; when
\* the share is at least 0.8 the transparency test wins over the fallback.
C11_WhiteFallback ==
    InferDone =>
        /\ (5 * FrameTransparent < 4 * FrameTotal /\ FrameOpaque < 16) =>
               Inferred = BgResult(255, 255, 255, 1, FALSE)
        /\ (FrameTotal > 0 /\ 5 * FrameTransparent >= 4 * FrameTotal
               /\ FrameOpaque < 16) =>
               Inferred.isTransparentBg

\* C11 witness: a border of red and navy samples, fewer than 16 of them,
\* with some transparent pixels in it, inferred as white
C11_Witness ==
    /\ InferDone
    /\ FrameOpaque < 16 /\ img.frame[1] > 0 /\ img.frame[3] > 0
    /\ FrameTransparent > 0 /\ 5 * FrameTransparent < 4 * FrameTotal
    /\ Inferred = BgResult(255, 255, 255, 1, FALSE)

\* positions before `pos`, in scan order, of the pixels the buffer holds that
\* satisfy x < border or x >= width - border or y < border or
\* y >= height - border, border = max(2, round(min(width, height) * 0.05))
EdgePixelsBefore(pos) ==
    LET border == Max2(2, (Min2(inf.width, inf.height) + 10) \div 20)
    IN  {i \in 0..(pos - 1) :
            /\ 4 * i + 3 < inf.dataLen
            /\ \/ i % inf.width < border
               \/ i % inf.width >= inf.width - border
               \/ i \div inf.width < border
               \/ i \div inf.width >= inf.height - border}

RECURSIVE HistTotal(_)
HistTotal(hist) == IF hist = <<>> THEN 0 ELSE Head(hist).count + HistTotal(Tail(hist))

\* C12: at every point of the scan, totalBorder is the number of pixels
\* scanned so far that satisfy the edge test (each counted once), and the
\* transparent count and the histogram hold the frame's pixels only: no
\* interior pixel contributes to either.
C12_BorderFrame ==
    inf.pc \in {"scan", "done"} =>
        /\ inf.totalBorder = Cardinality(EdgePixelsBefore(inf.pos))
        /\ inf.transparentCount = FrameTransparent
        /\ inf.countAll = FrameOpaque
        /\ HistTotal(inf.hist) = FrameOpaque
        /\ \A i \in 1..Len(inf.hist) :
              \E c \in OpaquePixels :
                 /\ QuantKey(Palette[c].r, Palette[c].g, Palette[c].b) = inf.hist[i].key
                 /\ inf.hist[i].count = BucketCount(c)

\* C12 witness: a complete 5 x 5 raster whose 24 frame pixels were counted
\* while its interior pixel, an opaque one, was not
C12_Witness ==
    /\ InferDone
    /\ inf.width = 5 /\ inf.height = 5 /\ inf.dataLen = 100
    /\ inf.totalBorder = 24
    /\ img.interior \cap OpaquePixels # {}
    /\ FrameTransparent > 0 /\ FrameOpaque > 0

\* a result of the shape inferBgFromRGBA promises: channels that are bytes,
\* alpha 0 or 1, and the flag set exactly when alpha is 0
WellFormed(res) ==
    /\ res.bg.r \in 0..255 /\ res.bg.g \in 0..255 /\ res.bg.b \in 0..255
    /\ res.bg.alpha \in {0, 1}
    /\ res.isTransparentBg \in BOOLEAN
    /\ res.isTransparentBg <=> res.bg.alpha = 0

\* C30: for every width and height from 0 up and every buffer, also one
\* shorter than width * height * 4 bytes, the scan stays inside the raster
\* and can always go on until it returns; every sample counted is a whole
\* pixel inside the buffer; the bucket counts add up to the number of opaque
\* border samples, which is totalBorder - transparentCount; and the result
\* has byte channels, alpha 0 or 1 and isTransparentBg exactly when alpha
\* is 0.
C30_InferTotalWellFormed ==
    /\ inf.pc = "scan" =>
          /\ inf.pos <= inf.width * inf.height
          /\ ENABLED NextInfer
    /\ inf.pc \in {"scan", "done"} =>
          /\ 4 * inf.totalBorder <= inf.dataLen
          /\ HistTotal(inf.hist) = inf.countAll
          /\ inf.countAll = inf.totalBorder - inf.transparentCount
    /\ inf.pc = "done" =>
          /\ inf.result.status = "ok"
          /\ WellFormed(Inferred)

\* C30 witness: the call returned on a buffer cut short inside a pixel,
\* some of whose border pixels were sampled and found opaque
C30_Witness ==
    /\ inf.pc = "done"
    /\ inf.dataLen < 4 * inf.width * inf.height
    /\ inf.dataLen % 4 # 0
    /\ inf.countAll > 0
    /\ WellFormed(Inferred)

----------------------------------------------------------------------------
(* Generator pipelines: processor.resize / createSocialPreview, then       *)
(* finalProcessor.save, then processor.cleanup                             *)

Kinds == {"openGraph", "pngFavicons", "icoFavicon", "pwaIcons", "splash",
          "generateSizes"}
Looping == {"pngFavicons", "pwaIcons"}

\* a rejection inside the pipeline: generateICOFavicon's try block hands over
\* to its catch block (a second processor); everywhere else it leaves the
\* generator function
Thrown(g) ==
    IF g.kind = "icoFavicon" /\ g.branch = "try"
    THEN [g EXCEPT !.pc = "transform", !.branch = "catch", !.proc = 2]
    ELSE [g EXCEPT !.pc = "exit", !.exit = "threw"]

\* entry: `new ImageProcessor(...)`; generateSizes first checks ImageMagick
\* (image-processor.ts 606-620) and throws if it is missing
GenStart ==
    /\ gp.pc = "start"
    /\ IF gp.kind = "generateSizes"
       THEN \E available \in BOOLEAN :
              /\ (~available => (~mockMode /\ engine = "magick"))
              /\ gp' = IF available
                       THEN [gp EXCEPT !.pc = "tasks",
                                       !.tasks = [t \in 1..NumSizes |-> "resize"]]
                       ELSE [gp EXCEPT !.pc = "exit", !.exit = "threw"]
       ELSE gp' = [gp EXCEPT !.pc = "transform",
                             !.branch = IF gp.kind = "icoFavicon" THEN "try"
                                        ELSE "plain"]
    /\ UNCHANGED <<engine, mockMode, rz, procVars, inferVars, dispatchVars, pipeVars, lateVars>>

\* `await processor.resize(...)` / `await processor.createSocialPreview(...)`
GenTransform ==
    /\ gp.pc = "transform"
    /\ \E steps \in 1..4 :
         /\ Room(steps)
         /\ (steps > 1 => (gp.kind = "openGraph" /\ ~mockMode))
         /\ \E names \in [1..steps -> TempNames], failAt \in 0..steps,
               wrote \in BOOLEAN :
              /\ ChainEffect(IF gp.kind = "openGraph" THEN "createSocialPreview"
                             ELSE "resize", gp.proc, steps, names, failAt, wrote)
              /\ gp' = IF failAt = 0
                       THEN [gp EXCEPT !.pc = "save", !.pending = @ \cup {gp.proc}]
                       ELSE Thrown([gp EXCEPT !.pending = @ \cup {gp.proc}])
    /\ UNCHANGED <<engine, mockMode, rz, inferVars, dispatchVars, pipeVars, lateVars>>

\* `await finalProcessor.save(outputPath, ...)`
GenSave ==
    /\ gp.pc = "save"
    /\ \E ok \in BOOLEAN :
         gp' = IF ok
               THEN [gp EXCEPT !.pc = IF gp.branch = "catch" THEN "rename"
                                      ELSE "cleanup"]
               ELSE Thrown(gp)
    /\ UNCHANGED <<engine, mockMode, rz, procVars, inferVars, dispatchVars, pipeVars, lateVars>>

\* favicon.ts 127: `await fs.rename(png, ico)` in the catch block
GenRename ==
    /\ gp.pc = "rename"
    /\ \E ok \in BOOLEAN :
         gp' = IF ok THEN [gp EXCEPT !.pc = "cleanup"] ELSE Thrown(gp)
    /\ UNCHANGED <<engine, mockMode, rz, procVars, inferVars, dispatchVars, pipeVars, lateVars>>

\* `await processor.cleanup()` (and the cleanup of finalProcessor, whose
\* registry is empty), then the next size of the loop or the return
GenCleanup ==
    /\ gp.pc = "cleanup"
    /\ \E failing \in Failing(gp.proc) : CleanupEffect(gp.proc, failing)
    /\ gp' = IF gp.kind \in Looping /\ gp.iter < NumSizes
             THEN [gp EXCEPT !.pc = "transform", !.iter = @ + 1,
                             !.pending = @ \ {gp.proc}]
             ELSE [gp EXCEPT !.pc = "exit", !.exit = "returned",
                             !.pending = @ \ {gp.proc}]
    /\ UNCHANGED <<engine, mockMode, rz, inferVars, dispatchVars, pipeVars, lateVars>>

\* generateSizes, image-processor.ts 624-637: the task of one size,
\* `await this.resize(...)`
GenTaskResize(t) ==
    /\ gp.kind = "generateSizes"
    /\ gp.pc \in {"tasks", "exit"}
    /\ t \in DOMAIN gp.tasks
    /\ gp.tasks[t] = "resize"
    /\ Room(1)
    /\ \E names \in [1..1 -> TempNames], failAt \in 0..1, wrote \in BOOLEAN :
         /\ ChainEffect("resize", gp.proc, 1, names, failAt, wrote)
         /\ gp' = [gp EXCEPT !.tasks[t] = IF failAt = 0 THEN "save" ELSE "failed",
                             !.pending = IF gp.pc = "tasks" THEN @ \cup {gp.proc}
                                         ELSE @]
    /\ UNCHANGED <<engine, mockMode, rz, inferVars, dispatchVars, pipeVars, lateVars>>

\* `await processor.save(...)` of one size
GenTaskSave(t) ==
    /\ gp.kind = "generateSizes"
    /\ gp.pc \in {"tasks", "exit"}
    /\ t \in DOMAIN gp.tasks
    /\ gp.tasks[t] = "save"
    /\ \E ok \in BOOLEAN :
         gp' = [gp EXCEPT !.tasks[t] = IF ok THEN "ok" ELSE "failed"]
    /\ UNCHANGED <<engine, mockMode, rz, procVars, inferVars, dispatchVars, pipeVars, lateVars>>

\* image-processor.ts 639-644: Promise.all settles (all sizes done, or the
\* first one failed) and the finally block cleans up
GenSizesFinally ==
    /\ gp.kind = "generateSizes"
    /\ gp.pc = "tasks"
    /\ \/ \A t \in 1..NumSizes : gp.tasks[t] = "ok"
       \/ \E t \in 1..NumSizes : gp.tasks[t] = "failed"
    /\ \E failing \in Failing(gp.proc) : CleanupEffect(gp.proc, failing)
    /\ gp' = [gp EXCEPT !.pc = "exit",
                        !.exit = IF \E t \in 1..NumSizes : gp.tasks[t] = "failed"
                                 THEN "threw" ELSE "returned",
                        !.pending = @ \ {gp.proc}]
    /\ UNCHANGED <<engine, mockMode, rz, inferVars, dispatchVars, pipeVars, lateVars>>

InitGen ==
    /\ engine \in Engines
    /\ mockMode \in BOOLEAN
    /\ rz = [IdleResize EXCEPT !.pc = "idle"]
    /\ InitFs
    /\ InitInferIdle
    /\ \E kind \in Kinds : gp = Pipeline(kind)
    /\ InitDispatchIdle
    /\ InitLateIdle
    /\ InitPipeIdle

NextGen ==
    \/ GenStart
    \/ GenTransform
    \/ GenSave
    \/ GenRename
    \/ GenCleanup
    \/ \E t \in 1..NumSizes : GenTaskResize(t) \/ GenTaskSave(t)
    \/ GenSizesFinally

SpecGen == InitGen /\ [][NextGen]_vars

\* C2: every pipeline that called resize or createSocialPreview on a
\* processor has invoked cleanup() on that processor when it exits, whether
\* it returns or throws.
C2_CleanupOnEveryExit ==
    gp.exit # "none" => gp.pending = {}

----------------------------------------------------------------------------
(* Engine selection and the dispatch of ImageProcessor methods             *)

Methods == {"resize", "addText", "applyColor", "save", "inferBackgroundColor",
            "cleanup"}
Transforms == {"resize", "addText", "applyColor", "save"}
SaveFormats == {"png", "jpeg", "webp", "ico"}
JimpFormats == {"png", "jpeg", "webp"}

\* ImageProcessor.setEngine(e), lines 128-130
SetEngine(e) ==
    /\ engine' = e
    /\ selected' = e
    /\ UNCHANGED <<mockMode, rz, procVars, inferVars, gp, call, pipeVars, lateVars>>

\* checkImageMagickAvailability(), cli: the probe finds ImageMagick or not
\* (mock mode always reports it found); when it is missing and the user
\* declines the fallback the process exits with nothing changed
checkImageMagickAvailability ==
    \E isAvailable \in BOOLEAN, declined \in BOOLEAN :
        /\ mockMode => isAvailable
        /\ isAvailable => ~declined
        /\ IF declined
           THEN UNCHANGED vars
           ELSE SetEngine(IF isAvailable THEN "magick" ELSE "jimp")

\* a method of some processor is called
MethodStart ==
    /\ call.pc = "idle"
    /\ \E op \in Methods, autoDetect \in BOOLEAN, format \in SaveFormats :
         /\ autoDetect => op = "resize"
         /\ format # "png" => op = "save"
         /\ call' = MethodCall(op, autoDetect, format)
    /\ UNCHANGED <<engine, mockMode, rz, procVars, inferVars, gp, selected, pipeVars, lateVars>>

\* resize(), lines 251-261: `await this.inferBackgroundColor()` inside a
\* try/catch; the inference goes to the mock or to the selected engine
\* (lines 723-731) and its failure is swallowed
MethodInfer ==
    /\ call.pc = "start"
    /\ call.op = "resize" /\ call.autoDetect
    /\ call' = [call EXCEPT !.pc = "dispatch",
                            !.inferVia = IF mockMode THEN "mock" ELSE engine,
                            !.inferAt = selected]
    /\ UNCHANGED <<engine, mockMode, rz, procVars, inferVars, gp, selected, pipeVars, lateVars>>

\* the message of the error a failed run of the engine rejects with: the
\* magick branches wrap it as `ImageMagick <operation> failed: ...` (lines
\* 366-368, 443-445, 491-493, 596-598), the jimp branches and
\* inferBackgroundColor let the library's or the tool's own error through
EngineError(op, via) ==
    IF via = "magick" /\ op \in Transforms
    THEN [from |-> "magick", names |-> op]
    ELSE [from |-> via, names |-> ""]

\* the branch a method takes: mock (createMockOutputFile / the mock result),
\* jimp or magick by ImageProcessor.getEngine(); cleanup() has no branch
MethodDispatch ==
    /\ call.pc \in {"start", "dispatch"}
    /\ call.pc = "start" => ~(call.op = "resize" /\ call.autoDetect)
    /\ IF call.op = "cleanup"
       THEN call' = [call EXCEPT !.pc = "done", !.outcome = "resolved"]
       ELSE IF mockMode
       THEN \E ok \in BOOLEAN :
              /\ call.op = "inferBackgroundColor" => ok
              /\ call' = [call EXCEPT !.pc = "done", !.via = "mock", !.at = selected,
                                      !.outcome = IF ok THEN "resolved" ELSE "rejected",
                                      !.error = IF ok THEN NoError
                                                ELSE [from |-> "fs", names |-> ""]]
       ELSE IF engine = "jimp" /\ call.op = "save" /\ call.format \notin JimpFormats
       THEN call' = [call EXCEPT !.pc = "done", !.via = "jimp", !.at = selected,
                                 !.outcome = "rejected",
                                 !.error = [from |-> "format", names |-> ""]]
       ELSE call' = [call EXCEPT !.pc = "engine", !.via = engine, !.at = selected]
    /\ UNCHANGED <<engine, mockMode, rz, procVars, inferVars, gp, selected, pipeVars, lateVars>>

\* the engine runs the operation: one execFileAsync(magickCmd, args), or one
\* Jimp.read ... writeAsync pass; it succeeds or it fails, and a failure is
\* thrown to the caller
MethodEngineFallsBack ==
    /\ call.pc = "engine"
    /\ \E ok \in BOOLEAN :
         /\ call' = [call EXCEPT !.pc = "done", !.invoked = @ + 1,
                                 !.outcome = IF ok THEN "resolved" ELSE "rejected",
                                 !.error = IF ok THEN NoError
                                           ELSE EngineError(call.op, call.via)]
         /\ engine' = IF ok THEN engine ELSE "jimp"
    /\ UNCHANGED <<mockMode, rz, procVars, inferVars, gp, selected, pipeVars, lateVars>>

MethodEngine ==
    /\ call.pc = "engine"
    /\ \E ok \in BOOLEAN :
         call' = [call EXCEPT !.pc = "done", !.invoked = @ + 1,
                              !.outcome = IF ok THEN "resolved" ELSE "rejected",
                              !.error = IF ok THEN NoError
                                        ELSE EngineError(call.op, call.via)]
    /\ UNCHANGED <<engine, mockMode, rz, procVars, inferVars, gp, selected, pipeVars, lateVars>>

\* the call has settled and the caller goes on
MethodReturn ==
    /\ call.pc = "done"
    /\ call' = NoMethod
    /\ UNCHANGED <<engine, mockMode, rz, procVars, inferVars, gp, selected, pipeVars, lateVars>>

InitEngine ==
    /\ engine = "magick"
    /\ mockMode \in BOOLEAN
    /\ rz = [IdleResize EXCEPT !.pc = "idle"]
    /\ InitFs
    /\ InitInferIdle
    /\ InitGenIdle
    /\ InitDispatchIdle
    /\ InitLateIdle
    /\ InitPipeIdle

NextEngine ==
    \/ \E e \in Engines : SetEngine(e)
    \/ checkImageMagickAvailability
    \/ MethodStart
    \/ MethodInfer
    \/ MethodDispatch
    \/ MethodEngine
    \/ MethodReturn

SpecEngine == InitEngine /\ [][NextEngine]_vars

C19_SingleInvocationNamedError ==
    call.op \in Transforms =>
        /\ call.invoked <= 1
        /\ (call.outcome = "rejected" /\ call.invoked = 1) =>
               call.error.names = call.op

----------------------------------------------------------------------------
(* ImageProcessor.save: the output format and what is written              *)

\* config.output.path values: two plain directories, one whose name
\* contains the characters ".ico" and one whose name contains ".svg"
OutputDirs ==
    { <<"o","u","t">>, <<"a","/","b">>, <<"a",".","i","c","o","n","s">>,
      <<"a",".","s","v","g","s">> }

\* save(outputPath, options), lines 511-512 and 533-536: the format is the
\* extension of the path unless options.format is given
SaveFormat(path, optFormat) == IF optFormat # <<>> THEN optFormat ELSE ExtName(path)

JimpAcceptsPngOnly(format) == format = StrPng

\* the jimp branch accepts png, jpeg (jpg) and webp only, lines 513-516
JimpAccepts(format) ==
    format \in {StrPng, StrJpeg, StrJpg, StrWebp}

\* what a successful save leaves at the path: magick encodes as
\* `${format.toUpperCase()}:${outputPath}` (line 592), Jimp's writeAsync
\* encodes by the extension of the path, the mock copies the source
SavedAs(path, format) ==
    IF mockMode THEN "copy"
    ELSE IF engine = "jimp" THEN (IF ExtName(path) = StrPng THEN "png" ELSE "other")
    ELSE IF format = StrPng THEN "png"
    ELSE IF format = StrIco THEN "ico"
    ELSE "other"

----------------------------------------------------------------------------
(* Background-removal pipelines: makeBackgroundTransparent and the         *)
(* favicon.svg / safari-pinned-tab.svg generators                          *)

BgKinds == {"makeBackgroundTransparent", "faviconSvg", "safariSvg"}

\* the stages of a pipeline, in order.  transparent-background.ts 26-43:
\* infer, cleanup, mkdir, chroma-key.  favicon.ts 139-201 and 307-373: an
\* .svg source is copied; otherwise infer, cleanup, resize, save, chroma-key,
\* embed (readFile + writeFile), cleanup, and in the catch block either
\* resize, save, rename, cleanup (favicon.svg) or the template (safari)
Program(kind, sourceIsSvg, branch) ==
    IF kind = "makeBackgroundTransparent"
    THEN <<"infer", "cleanup", "mkdir", "key">>
    ELSE IF sourceIsSvg THEN <<"copy">>
    ELSE IF branch = "main"
    THEN <<"infer", "cleanup", "resize", "save", "key", "embed", "cleanup">>
    ELSE IF kind = "faviconSvg" THEN <<"resize", "save", "rename", "cleanup">>
    ELSE <<"template">>

Stage(t) == Program(t.kind, t.sourceIsSvg, t.branch)[t.step]

\* the tool a stage invokes: inferBackgroundColor, resize and save go to the
\* mock or to the engine ImageProcessor.getEngine() names; the chroma-key
\* stage is `execFile('magick', [...])`; the rest are fs calls
StageTool(stage) ==
    CASE stage \in {"infer", "resize", "save"} ->
           (IF mockMode THEN "mock" ELSE engine)
      [] stage = "key" -> "magick"
      [] OTHER -> "fs"

\* a stage can fail unless it is cleanup() or the mock inference
CanFail(stage) ==
    /\ stage # "cleanup"
    /\ ~(stage = "infer" /\ mockMode)

\* favicon.ts 137 and 305: the output path of the two generators (the
\* file name of the Safari icon is shortened to "safari.svg"), and
\* `outputPath.replace('.svg', '.png')`, the path the catch block saves to
SvgOutputPath(t) ==
    t.dir \o (IF t.kind = "safariSvg" THEN StrSafariSvg ELSE StrFaviconSvg)

SvgPngPath(t) == ReplaceFirst(SvgOutputPath(t), StrDotSvg, StrDotPng)

\* what a stage that ran leaves behind: the copy of an .svg source, the SVG
\* wrapper around the keyed PNG, the file the catch block's save() encodes
\* and fs.rename moves to the output path, the fixed template of the Safari
\* catch block, or the keyed image of makeBackgroundTransparent
Written(t) ==
    LET stage == Stage(t)
        path == SvgPngPath(t)
    IN  CASE stage = "copy" -> [t EXCEPT !.output = "svgCopy"]
          [] stage = "embed" -> [t EXCEPT !.output = "svgWrapper"]
          [] stage = "save" /\ t.branch = "fallback" ->
               [t EXCEPT !.saved = SavedAs(path, SaveFormat(path, <<>>))]
          [] stage = "rename" -> [t EXCEPT !.output = t.saved, !.saved = "none"]
          [] stage = "template" -> [t EXCEPT !.output = "svgTemplate"]
          [] stage = "key" /\ t.kind = "makeBackgroundTransparent" ->
               [t EXCEPT !.output = "keyed"]
          [] OTHER -> t

\* the stage ran; after the last one the function returns
Advanced(t) ==
    LET ran == [Written(t) EXCEPT !.stages = Append(@, [stage |-> Stage(t),
                                               tool |-> StageTool(Stage(t))])]
    IN  IF t.step = Len(Program(t.kind, t.sourceIsSvg, t.branch))
        THEN [ran EXCEPT !.pc = "exit", !.exit = "returned"]
        ELSE [ran EXCEPT !.step = @ + 1]

\* the stage threw: inside the try block of the two generators the catch
\* block takes over with a console.warn; anywhere else the function rejects
Failed(t) ==
    LET ran == [t EXCEPT !.stages = Append(@, [stage |-> Stage(t),
                                               tool |-> StageTool(Stage(t))])]
    IN  IF t.kind # "makeBackgroundTransparent" /\ ~t.sourceIsSvg
           /\ t.branch = "main"
        THEN [ran EXCEPT !.branch = "fallback", !.step = 1, !.warned = TRUE]
        ELSE [ran EXCEPT !.pc = "exit", !.exit = "threw"]

\* `await detector.inferBackgroundColor()`
BgInfer ==
    /\ tp.pc = "run" /\ Stage(tp) = "infer"
    /\ \E ok \in BOOLEAN :
         /\ ~ok => CanFail("infer")
         /\ tp' = IF ok THEN Advanced(tp) ELSE Failed(tp)
    /\ UNCHANGED <<engine, mockMode, rz, procVars, inferVars, gp, dispatchVars, ico, lateVars>>

\* the catch block's save() names no format: under the fallback engine it
\* rejects when the extension of the path is not one it accepts
SaveRejected(t) ==
    /\ Stage(t) = "save" /\ t.branch = "fallback"
    /\ ~mockMode /\ engine = "jimp"
    /\ ~JimpAccepts(SaveFormat(SvgPngPath(t), <<>>))

\* `await processor.resize(...)` / `await tempProc.save(...)`
BgTransform ==
    /\ tp.pc = "run" /\ Stage(tp) \in {"resize", "save"}
    /\ \E ok \in BOOLEAN :
         /\ SaveRejected(tp) => ~ok
         /\ tp' = IF ok THEN Advanced(tp) ELSE Failed(tp)
    /\ UNCHANGED <<engine, mockMode, rz, procVars, inferVars, gp, dispatchVars, ico, lateVars>>

\* `await execFile('magick', [..., '-fuzz', ..., '-transparent', bgHex, ...])`
BgKey ==
    /\ tp.pc = "run" /\ Stage(tp) = "key"
    /\ \E ok \in BOOLEAN : tp' = IF ok THEN Advanced(tp) ELSE Failed(tp)
    /\ UNCHANGED <<engine, mockMode, rz, procVars, inferVars, gp, dispatchVars, ico, lateVars>>

\* fs.mkdir / fs.copyFile / fs.readFile + fs.writeFile / fs.rename
BgFile ==
    /\ tp.pc = "run" /\ Stage(tp) \in {"mkdir", "copy", "embed", "rename", "template"}
    /\ \E ok \in BOOLEAN : tp' = IF ok THEN Advanced(tp) ELSE Failed(tp)
    /\ UNCHANGED <<engine, mockMode, rz, procVars, inferVars, gp, dispatchVars, ico, lateVars>>

\* `await detector.cleanup()` and the cleanups that end a branch
BgCleanup ==
    /\ tp.pc = "run" /\ Stage(tp) = "cleanup"
    /\ tp' = Advanced(tp)
    /\ UNCHANGED <<engine, mockMode, rz, procVars, inferVars, gp, dispatchVars, ico, lateVars>>

InitPipe ==
    /\ engine \in Engines
    /\ mockMode \in BOOLEAN
    /\ rz = [IdleResize EXCEPT !.pc = "idle"]
    /\ InitFs
    /\ InitInferIdle
    /\ InitGenIdle
    /\ InitDispatchIdle
    /\ InitLateIdle
    /\ \E kind \in BgKinds, sourceIsSvg \in BOOLEAN, dir \in OutputDirs :
         tp = BgPipeline(kind, sourceIsSvg, dir)
    /\ ico = NoIco

NextPipe == BgInfer \/ BgTransform \/ BgKey \/ BgFile \/ BgCleanup

SpecPipe == InitPipe /\ [][NextPipe]_vars

\* C15: the engine selection does not change during a pipeline, and every
\* stage that runs an engine runs the selected one: with the fallback
\* selected no stage invokes the primary command-line tool.
C15_PipelineOneEngine ==
    \A i \in 1..Len(tp.stages) :
        tp.stages[i].tool \in Engines => tp.stages[i].tool = engine

\* C21: for a source that is not an .svg file, once a step of the try
\* block of generateSVGFavicon or generateSafariIcon has failed the warning
\* has been emitted, and when the generator returns the file under the .svg
\* name is the PNG encoding of the resized source (real engines, not the
\* test mock, whose save() copies the source instead of encoding).
C21_VectorFallsBackToPng ==
    (/\ tp.kind \in {"faviconSvg", "safariSvg"}
     /\ ~tp.sourceIsSvg /\ ~mockMode
     /\ tp.branch = "fallback")
    => /\ tp.warned
       /\ tp.exit = "returned" => tp.output = "png"

----------------------------------------------------------------------------
(* FaviconGenerator.generateICOFavicon                                     *)

\* a statement of the try block threw: the catch block starts with
\* console.warn; a statement of the catch block threw: the function rejects
IcoThrew(c) ==
    IF c.branch = "try"
    THEN [c EXCEPT !.pc = "resize", !.branch = "catch", !.warned = TRUE]
    ELSE [c EXCEPT !.pc = "exit", !.exit = "threw", !.threwIn = "catch"]

\* `await processor.resize(32, 32, {fit: 'contain', ...})`, lines 107-111
\* and 120-124
IcoResize ==
    /\ ico.pc = "resize"
    /\ \E ok \in BOOLEAN :
         ico' = IF ok THEN [ico EXCEPT !.pc = "save"] ELSE IcoThrew(ico)
    /\ UNCHANGED <<engine, mockMode, rz, procVars, inferVars, gp, dispatchVars, tp, lateVars>>

\* `await finalProcessor.save(outputPath, { format: 'ico' })`, line 113, or
\* `await finalProcessor.save(outputPath.replace('.ico', '.png'))`, line 126
IcoSave ==
    /\ ico.pc = "save"
    /\ LET path == IF ico.branch = "try" THEN IcoOutputPath(ico.dir)
                   ELSE IcoPngPath(ico.dir)
           format == SaveFormat(path, IF ico.branch = "try" THEN StrIco ELSE <<>>)
           rejected == ~mockMode /\ engine = "jimp" /\ ~JimpAccepts(format)
       IN  \E ok \in BOOLEAN :
             /\ rejected => ~ok
             /\ ico' =
                  IF ok
                  THEN [ico EXCEPT !.files[path] = SavedAs(path, format),
                                   !.pc = IF ico.branch = "try" THEN "cleanup"
                                          ELSE "rename"]
                  ELSE IcoThrew([ico EXCEPT !.encodeFailed =
                                     @ \/ (~mockMode /\ ico.branch = "try")])
    /\ UNCHANGED <<engine, mockMode, rz, procVars, inferVars, gp, dispatchVars, tp, lateVars>>

\* `await fs.rename(outputPath.replace('.ico', '.png'), outputPath)`, line 127
IcoRename ==
    /\ ico.pc = "rename"
    /\ \E ok \in BOOLEAN :
         ico' = IF ok
                THEN [ico EXCEPT !.pc = "cleanup",
                                 !.files = [f \in DOMAIN ico.files |->
                                     IF f = IcoOutputPath(ico.dir)
                                     THEN ico.files[IcoPngPath(ico.dir)]
                                     ELSE IF f = IcoPngPath(ico.dir) THEN "none"
                                     ELSE ico.files[f]]]
                ELSE IcoThrew(ico)
    /\ UNCHANGED <<engine, mockMode, rz, procVars, inferVars, gp, dispatchVars, tp, lateVars>>

\* `await processor.cleanup(); await finalProcessor.cleanup()`, then return
IcoCleanup ==
    /\ ico.pc = "cleanup"
    /\ ico' = [ico EXCEPT !.pc = "exit", !.exit = "returned"]
    /\ UNCHANGED <<engine, mockMode, rz, procVars, inferVars, gp, dispatchVars, tp, lateVars>>

InitIco ==
    /\ engine \in Engines
    /\ mockMode \in BOOLEAN
    /\ rz = [IdleResize EXCEPT !.pc = "idle"]
    /\ InitFs
    /\ InitInferIdle
    /\ InitGenIdle
    /\ InitDispatchIdle
    /\ InitLateIdle
    /\ tp = NoBgPipeline
    /\ \E dir \in OutputDirs : ico = IcoCall(dir)

NextIco == IcoResize \/ IcoSave \/ IcoRename \/ IcoCleanup

SpecIco == InitIco /\ [][NextIco]_vars

\* C20: once the icon-container encode of favicon.ico has failed, the
\* warning has been emitted; if generateICOFavicon returns, the file at
\* favicon.ico is the PNG encoding; and it rejects only because a step of
\* the PNG fallback failed.
C20_IcoFallsBackToPng ==
    ico.encodeFailed =>
        /\ ico.warned
        /\ ico.exit = "returned" => ico.files[IcoOutputPath(ico.dir)] = "png"
        /\ ico.exit = "threw" => ico.threwIn = "catch"

----------------------------------------------------------------------------
(* ImageProcessor.save, statement by statement                             *)

SavePaths ==
    { <<"a",".","p","n","g">>, <<"a",".","j","p","g">>, <<"a",".","J","P","G">>,
      <<"a",".","t","i","f">>, <<"a",".","w","e","b","p">>,
      <<"a",".","i","c","o">>, <<"a">> }

\* options.format: absent, or one of the names the option type allows
OptFormats == { <<>>, StrPng, StrJpeg, StrJpg, StrWebp, StrTif, StrTiff, StrIco }

\* lines 511-513 (jimp) and 533-540 (magick): the extension or the override,
\* then the renamings each branch applies
ResolveFormat(outputPath, optFormat) ==
    LET ext == ToLowerCase(ExtName(outputPath))
        resolved == IF optFormat # <<>> THEN optFormat ELSE ext
    IN  IF resolved = StrJpg THEN StrJpeg
        ELSE IF resolved = StrTif /\ engine = "magick" THEN StrTiff
        ELSE resolved

\* `await img.writeAsync(outputPath)`, line 527: the local `format` is not
\* passed; the library is handed the path alone and takes the image type
\* from its extension (jpg and jpeg are one type, tif and tiff another)
JimpEncoderOf(outputPath) ==
    LET ext == ToLowerCase(ExtName(outputPath))
    IN  IF ext = StrJpg THEN StrJpeg
        ELSE IF ext = StrTif THEN StrTiff
        ELSE ext

\* MOCK_MODE, lines 502-505: createMockOutputFile copies the source, or
\* writes an empty file if the copy fails, or throws if that fails too
SaveMock ==
    /\ sv.pc = "start" /\ mockMode
    /\ \E how \in {"copy", "empty", "threw"} :
         sv' = IF how = "threw"
               THEN [sv EXCEPT !.pc = "done", !.outcome = "rejected", !.error = "fs"]
               ELSE [sv EXCEPT !.pc = "done", !.outcome = "resolved",
                               !.written = how, !.dirMade = (how = "copy")]
    /\ UNCHANGED <<engine, mockMode, rz, procVars, inferVars, gp, dispatchVars,
                   pipeVars, fac, og, tasks, xf>>

\* lines 511-513 / 533-540
SaveResolve ==
    /\ sv.pc = "start" /\ ~mockMode
    /\ sv' = [sv EXCEPT !.format = ResolveFormat(sv.outputPath, sv.optFormat),
                        !.pc = IF engine = "jimp" THEN "check" ELSE "mkdir"]
    /\ UNCHANGED <<engine, mockMode, rz, procVars, inferVars, gp, dispatchVars,
                   pipeVars, fac, og, tasks, xf>>

\* lines 514-518: the format test, then `await Jimp.read(this.source)`
SaveJimpCheck ==
    /\ sv.pc = "check"
    /\ IF ~JimpAccepts(sv.format)
       THEN sv' = [sv EXCEPT !.pc = "done", !.outcome = "rejected",
                             !.error = "unsupported-format"]
       ELSE \E ok \in BOOLEAN :
              sv' = IF ok THEN [sv EXCEPT !.pc = "mkdir"]
                    ELSE [sv EXCEPT !.pc = "done", !.outcome = "rejected",
                                    !.error = "decode"]
    /\ UNCHANGED <<engine, mockMode, rz, procVars, inferVars, gp, dispatchVars,
                   pipeVars, fac, og, tasks, xf>>

\* `await fs.mkdir(path.dirname(outputPath), { recursive: true })`, lines
\* 526 and 545
SaveMkdir ==
    /\ sv.pc = "mkdir"
    /\ \E ok \in BOOLEAN :
         sv' = IF ok THEN [sv EXCEPT !.pc = "encode", !.dirMade = TRUE]
               ELSE [sv EXCEPT !.pc = "done", !.outcome = "rejected", !.error = "fs"]
    /\ UNCHANGED <<engine, mockMode, rz, procVars, inferVars, gp, dispatchVars,
                   pipeVars, fac, og, tasks, xf>>

\* line 527, `img.writeAsync(outputPath)`, or lines 592-598, the magick
\* command with the argument `${format.toUpperCase()}:${outputPath}`;
\* either can fail
SaveEncode ==
    /\ sv.pc = "encode"
    /\ LET asked == IF engine = "jimp" THEN JimpEncoderOf(sv.outputPath)
                    ELSE sv.format
       IN  \E ok \in BOOLEAN :
             sv' = IF ok
                   THEN [sv EXCEPT !.pc = "done", !.outcome = "resolved",
                                   !.encoder = asked, !.written = "encoded"]
                   ELSE [sv EXCEPT !.pc = "done", !.outcome = "rejected",
                                   !.encoder = asked, !.error = "encode"]
    /\ UNCHANGED <<engine, mockMode, rz, procVars, inferVars, gp, dispatchVars,
                   pipeVars, fac, og, tasks, xf>>

InitSave ==
    /\ engine \in Engines
    /\ mockMode \in BOOLEAN
    /\ rz = [IdleResize EXCEPT !.pc = "idle"]
    /\ InitFs
    /\ InitInferIdle
    /\ InitGenIdle
    /\ InitDispatchIdle
    /\ InitPipeIdle
    /\ \E outputPath \in SavePaths, optFormat \in OptFormats :
         sv = SaveCall(outputPath, optFormat)
    /\ fac = NoFactory
    /\ og = NoOg
    /\ tasks = NoTasks
    /\ xf = NoTransform

NextSave == SaveMock \/ SaveResolve \/ SaveJimpCheck \/ SaveMkdir \/ SaveEncode

SpecSave == InitSave /\ [][NextSave]_vars

\* the format the claim describes: the override or the lower-cased
\* extension, with jpg and tif renamed
NormalizedFormat(outputPath, optFormat) ==
    LET resolved == IF optFormat # <<>> THEN optFormat
                    ELSE ToLowerCase(ExtName(outputPath))
    IN  IF resolved = StrJpg THEN StrJpeg
        ELSE IF resolved = StrTif THEN StrTiff
        ELSE resolved

\* C22: whenever save() has invoked an encoder, under either engine, the
\* format the encoder was asked for is options.format if given and else the
\* lower-cased extension of the path, with jpg renamed jpeg and tif renamed
\* tiff; it is never jpg or tif.
C22_NormalizedFormatEncoded ==
    sv.encoder # StrNone =>
        /\ sv.encoder = NormalizedFormat(sv.outputPath, sv.optFormat)
        /\ sv.encoder \notin {StrJpg, StrTif}

----------------------------------------------------------------------------
(* The paths a transform reads and writes                                  *)

\* the prefix of the temp name each method generates: lines 212 (mock),
\* 271 and 322 (resize), 392 and 421 (addText), 461 and 477 (applyColor)
TempPrefix(method) ==
    IF mockMode THEN "temp"
    ELSE CASE method = "resize" -> "temp"
           [] method = "addText" -> "temp-text"
           [] method = "applyColor" -> "temp-color"

Prefixes == {"temp", "temp-text", "temp-color"}

\* the files a call can be given: the caller's file or an earlier temp file
GivenPaths == {UserFile} \cup {TempFile(pre, n) : pre \in Prefixes, n \in TempNames}

\* createSocialPreview(), lines 668-705: the methods it runs
PreviewProgram(gradient, title, description) ==
    IF mockMode THEN <<"mock">>
    ELSE <<"resize">> \o (IF gradient THEN <<"applyColor">> ELSE <<>>)
                      \o (IF title THEN <<"addText">> ELSE <<>>)
                      \o (IF description THEN <<"addText">> ELSE <<>>)

\* what a method reads: resize and the mock read this.source, addText and
\* applyColor read their inputFile argument (or, in mock mode, this.source)
ReadBy(t) ==
    IF mockMode \/ Head(t.program) \in {"resize", "mock"} THEN t.source
    ELSE t.currentFile

\* one method runs: it generates a name, reads its input and writes the
\* file of that name; a failure ends the call, and may or may not have
\* left a file
XfRun ==
    /\ xf.pc = "run" /\ xf.program # <<>>
    /\ \E stamp \in TempNames, ok \in BOOLEAN, wrote \in BOOLEAN :
         /\ ok => wrote
         /\ LET method == Head(xf.program)
                out == TempFile(TempPrefix(IF method = "mock" THEN "resize"
                                           ELSE method), stamp)
                ran == [xf EXCEPT !.runs = Append(@, [method |-> method,
                                                      input |-> ReadBy(xf),
                                                      output |-> out,
                                                      wrote |-> wrote])]
            IN  xf' = IF ok
                      THEN [ran EXCEPT !.program = Tail(@), !.currentFile = out]
                      ELSE [ran EXCEPT !.pc = "done", !.exit = "threw"]
    /\ UNCHANGED <<engine, mockMode, rz, procVars, inferVars, gp, dispatchVars,
                   pipeVars, sv, fac, og, tasks>>

\* `return tempOutput` / `return currentFile`
XfReturn ==
    /\ xf.pc = "run" /\ xf.program = <<>>
    /\ xf' = [xf EXCEPT !.pc = "done", !.exit = "returned",
                        !.returned = xf.currentFile]
    /\ UNCHANGED <<engine, mockMode, rz, procVars, inferVars, gp, dispatchVars,
                   pipeVars, sv, fac, og, tasks>>

InitXf ==
    /\ engine \in Engines
    /\ mockMode \in BOOLEAN
    /\ rz = [IdleResize EXCEPT !.pc = "idle"]
    /\ InitFs
    /\ InitInferIdle
    /\ InitGenIdle
    /\ InitDispatchIdle
    /\ InitPipeIdle
    /\ sv = NoSave
    /\ fac = NoFactory
    /\ og = NoOg
    /\ tasks = NoTasks
    /\ \E source \in GivenPaths :
         \/ xf = TransformCall("resize", source, source, <<"resize">>)
         \/ \E inputFile \in GivenPaths, op \in {"addText", "applyColor"} :
              xf = TransformCall(op, source, inputFile, <<op>>)
         \/ \E gradient \in BOOLEAN, title \in BOOLEAN, description \in BOOLEAN :
              xf = TransformCall("createSocialPreview", source, source,
                                 PreviewProgram(gradient, title, description))

NextXf == XfRun \/ XfReturn

SpecXf == InitXf /\ [][NextXf]_vars

\* C24: no method run by resize, addText, applyColor or createSocialPreview
\* writes the processor's source file, the inputFile it was given or the
\* file it read, and the path a call returns differs from its input.
C24_InputNotMutated ==
    /\ \A i \in 1..Len(xf.runs) :
         xf.runs[i].wrote =>
             /\ xf.runs[i].output # xf.source
             /\ xf.runs[i].output # xf.inputFile
             /\ xf.runs[i].output # xf.runs[i].input
    /\ xf.exit = "returned" => xf.returned \notin {xf.source, xf.inputFile}

----------------------------------------------------------------------------
(* The factory functions generateMessaging and generatePlatforms           *)

\* the functions of these two names in the source:
\*   messagingStatic    messaging/factory.ts 23-100
\*   messagingEach      messaging/discord.ts 71-141
\*   messagingStandard  src/unnamed/part_016 35-113
\*   platformsEach      src/unnamed/part_020 30-141
\*   platformsIndex     platforms/index.ts 55-135
\*   platformsStatic    src/unnamed/part_021 27-183
Factories == {"messagingStatic", "messagingEach", "messagingStandard",
              "platformsEach", "platformsIndex", "platformsStatic"}

\* the options interface of each function, in declaration order
Declared(fn) ==
    CASE fn = "messagingStatic" ->
           <<"discord", "telegram", "signal", "slack", "imessage", "androidrcs",
             "whatsapp", "wechat">>
      [] fn \in {"messagingEach", "messagingStandard"} ->
           <<"discord", "telegram", "signal", "slack", "imessage", "androidrcs">>
      [] fn = "platformsEach" ->
           <<"facebook", "twitter", "linkedin", "instagram", "snapchat", "tiktok",
             "whatsapp", "youtube", "pinterest", "threads", "bluesky", "mastodon">>
      [] fn = "platformsIndex" ->
           <<"facebook", "twitter", "linkedin", "instagram", "tiktok", "youtube",
             "pinterest", "snapchat", "threads", "bluesky", "mastodon", "whatsapp">>
      [] fn = "platformsStatic" ->
           <<"facebook", "twitter", "linkedin", "instagram", "tiktok", "snapchat",
             "threads", "whatsapp", "youtube", "pinterest", "bluesky", "mastodon">>

\* the `if (options.x)` statements of each function, in program order
Tests(fn) ==
    IF fn = "platformsStatic"
    THEN <<"twitter", "linkedin", "instagram", "tiktok", "snapchat", "threads",
           "youtube", "pinterest", "whatsapp">>
    ELSE Declared(fn)

Range(seq) == {seq[i] : i \in 1..Len(seq)}

\* BaseOpenGraphGenerator.generate, base-opengraph.ts 43-46, run once for
\* each of the filenames in turn: the list is reset by every run, so the last
\* filename is what it holds
AfterGenerate(filenames) ==
    IF filenames = <<>> THEN <<>> ELSE <<filenames[Len(filenames)]>>

\* StandardOpenGraphGenerator.generate, platforms/index.ts 236-357: the
\* platforms in the order it generates them
StandardOrder == <<"imessage", "discord", "telegram", "signal", "slack", "androidrcs">>

IsEnabled(o) == o \in fac.enabled

\* the files of the entry pushed for an option: a fixed list in the static
\* functions, generator.getGeneratedFiles() after generate() in the others
\* (Pinterest and WhatsApp produce two files by default, the rest one)
EntryFiles(fn, option) ==
    LET two == <<option \o "-a", option \o "-b">>
        one == <<option>>
    IN  IF fn \in {"messagingStatic", "platformsStatic"}
        THEN (IF option \in {"whatsapp", "instagram"} THEN two ELSE one)
        ELSE IF fn = "messagingStandard" THEN one
        ELSE AfterGenerate(IF option = "pinterest" THEN two ELSE one)

\* the statements before the first option test: nothing in the per-generator
\* functions; one generator.generate(...) call in messagingStatic; in
\* messagingStandard the early return when no option is true, else
\* standardGenerator.generate(...) and getGeneratedFiles()
FacStart ==
    /\ fac.pc = "start"
    /\ \/ /\ fac.fn \in {"messagingEach", "platformsEach", "platformsIndex",
                        "platformsStatic"}
          /\ fac' = [fac EXCEPT !.pc = "tests"]
       \/ /\ fac.fn = "messagingStatic"
          /\ \E ok \in BOOLEAN :
               fac' = IF ok THEN [fac EXCEPT !.pc = "tests"]
                      ELSE [fac EXCEPT !.pc = "done", !.exit = "threw"]
       \/ /\ fac.fn = "messagingStandard"
          /\ IF fac.enabled = {}
             THEN fac' = [fac EXCEPT !.pc = "done", !.exit = "returned"]
             ELSE \E ok \in BOOLEAN :
                    fac' = IF ok
                           THEN [fac EXCEPT !.pc = "tests",
                                   !.generatedFiles =
                                       AfterGenerate(SelectSeq(StandardOrder, IsEnabled))]
                           ELSE [fac EXCEPT !.pc = "done", !.exit = "threw"]
    /\ UNCHANGED <<engine, mockMode, rz, procVars, inferVars, gp, dispatchVars,
                   pipeVars, sv, og, tasks, xf>>

\* one `if (options.x) { ... }` statement
FacTest ==
    /\ fac.pc = "tests" /\ fac.tests # <<>>
    /\ LET option == Head(fac.tests)
           next == [fac EXCEPT !.tests = Tail(@)]
           pushed == [next EXCEPT !.results =
                         Append(@, [name |-> option,
                                    files |-> EntryFiles(fac.fn, option)])]
       IN  IF option \notin fac.enabled THEN fac' = next
           ELSE IF fac.fn = "messagingStatic" THEN fac' = pushed
           ELSE IF fac.fn = "messagingStandard"
           THEN fac' = IF option \in Range(fac.generatedFiles) THEN pushed ELSE next
           ELSE \E ok \in BOOLEAN :
                  fac' = IF ok THEN pushed
                         ELSE [fac EXCEPT !.pc = "done", !.exit = "threw"]
    /\ UNCHANGED <<engine, mockMode, rz, procVars, inferVars, gp, dispatchVars,
                   pipeVars, sv, og, tasks, xf>>

\* `return results` / `return generators`
FacReturn ==
    /\ fac.pc = "tests" /\ fac.tests = <<>>
    /\ fac' = [fac EXCEPT !.pc = "done", !.exit = "returned"]
    /\ UNCHANGED <<engine, mockMode, rz, procVars, inferVars, gp, dispatchVars,
                   pipeVars, sv, og, tasks, xf>>

InitFac ==
    /\ engine = "magick"
    /\ mockMode = FALSE
    /\ rz = [IdleResize EXCEPT !.pc = "idle"]
    /\ InitFs
    /\ InitInferIdle
    /\ InitGenIdle
    /\ InitDispatchIdle
    /\ InitPipeIdle
    /\ sv = NoSave
    /\ \E fn \in Factories :
         \E enabled \in SUBSET Range(Declared(fn)) :
             fac = FactoryCall(fn, enabled, Tests(fn))
    /\ og = NoOg
    /\ tasks = NoTasks
    /\ xf = NoTransform

NextFac == FacStart \/ FacTest \/ FacReturn

SpecFac == InitFac /\ [][NextFac]_vars

\* C25: when generateMessaging or generatePlatforms returns, the entries
\* are those of the options that are true, one each, in the order the
\* options are declared, every entry has at least one file, and with no
\* option true the result is empty.
C25_OneEntryPerEnabledOption ==
    fac.exit = "returned" =>
        /\ [i \in 1..Len(fac.results) |-> fac.results[i].name]
               = SelectSeq(Declared(fac.fn), IsEnabled)
        /\ \A i \in 1..Len(fac.results) : fac.results[i].files # <<>>
        /\ fac.enabled = {} => fac.results = <<>>

----------------------------------------------------------------------------
(* BaseOpenGraphGenerator.generate and GenericPlatformGenerator.generate   *)

\* options.filename: one of two names, or missing
Filenames == {"instagram.png", "discord.png", ""}

\* (as it would be without the reset)
ResetKeeping(generatedFiles) == generatedFiles

\* `this.generatedFiles = []`, base-opengraph.ts 43 and part_022 37
Reset(generatedFiles) == <<>>

\* generate(options) up to the call of generateOpenGraphImage: the options
\* are destructured and the list is reset.  A GenericPlatformGenerator
\* (the Instagram one here) passes the filename of its platformConfig
OgGenerate ==
    /\ og.pc = "idle" /\ og.calls < MaxCalls
    /\ \E filename \in Filenames :
         /\ og.generic => filename = "instagram.png"
         /\ og' = [og EXCEPT !.pc = "preview", !.filename = filename,
                             !.calls = @ + 1, !.exit = "none",
                             !.generatedFiles = Reset(@)]
    /\ UNCHANGED <<engine, mockMode, rz, procVars, inferVars, gp, dispatchVars,
                   pipeVars, sv, fac, tasks, xf>>

\* generateOpenGraphImage, lines 60-74: the filename test, then
\* `await processor.createSocialPreview(...)`
OgPreview ==
    /\ og.pc = "preview"
    /\ \E ok \in BOOLEAN :
         /\ og.filename = "" => ~ok
         /\ og' = IF ok THEN [og EXCEPT !.pc = "save"]
                  ELSE [og EXCEPT !.pc = "idle", !.exit = "threw"]
    /\ UNCHANGED <<engine, mockMode, rz, procVars, inferVars, gp, dispatchVars,
                   pipeVars, sv, fac, tasks, xf>>

\* lines 76-81: `await finalProcessor.save(outputPath, ...)`, which leaves a
\* file at path.join(config.output.path, filename), and processor.cleanup()
OgSave ==
    /\ og.pc = "save"
    /\ \E ok \in BOOLEAN :
         og' = IF ok THEN [og EXCEPT !.pc = "push", !.output = @ \cup {og.filename}]
               ELSE [og EXCEPT !.pc = "idle", !.exit = "threw"]
    /\ UNCHANGED <<engine, mockMode, rz, procVars, inferVars, gp, dispatchVars,
                   pipeVars, sv, fac, tasks, xf>>

\* `this.generatedFiles.push(filename)`, line 46, and the return
OgPush ==
    /\ og.pc = "push"
    /\ og' = [og EXCEPT !.pc = "idle", !.exit = "returned",
                        !.generatedFiles = Append(@, og.filename)]
    /\ UNCHANGED <<engine, mockMode, rz, procVars, inferVars, gp, dispatchVars,
                   pipeVars, sv, fac, tasks, xf>>

InitOg ==
    /\ engine \in Engines
    /\ mockMode \in BOOLEAN
    /\ rz = [IdleResize EXCEPT !.pc = "idle"]
    /\ InitFs
    /\ InitInferIdle
    /\ InitGenIdle
    /\ InitDispatchIdle
    /\ InitPipeIdle
    /\ sv = NoSave
    /\ fac = NoFactory
    /\ \E generic \in BOOLEAN : og = NewGenerator(generic)
    /\ tasks = NoTasks
    /\ xf = NoTransform

NextOg == OgGenerate \/ OgPreview \/ OgSave \/ OgPush

SpecOg == InitOg /\ [][NextOg]_vars

\* getGeneratedFiles(), lines 128-130: a copy of the list
getGeneratedFiles == og.generatedFiles

----------------------------------------------------------------------------
(* ImageProcessor.generateSizes, task by task: the size tasks run          *)
(* concurrently with each other and with the cleanup() of the finally      *)
(* block (image-processor.ts 606-645, 900-911)                             *)

\* resize(), lines 262-325: under ImageMagick and without background
\* detection `this.tempFiles.push(tempOutput)` runs before the first await
\* of resize, so inside the loop of generateSizes; in mock mode (after the
\* mkdir and copyFile of createMockOutputFile), under jimp (after
\* `await getJimp()`) and with detection (after
\* `await this.inferBackgroundColor()`) it runs in a later turn
PushesBeforeFirstAwait ==
    ~mockMode /\ engine = "magick" /\ ~tasks.autoDetect

Finished(t) == tasks.task[t] \in {"ok", "failed"}

\* lines 606-637: the ImageMagick check, then the loop, which runs every
\* task up to its first await
SizesStart ==
    /\ tasks.pc = "start"
    /\ \E isAvailable \in BOOLEAN :
         /\ (~isAvailable => (~mockMode /\ engine = "magick"))
         /\ tasks' =
              IF ~isAvailable
              THEN [tasks EXCEPT !.pc = "settled", !.outcome = "rejected"]
              ELSE IF PushesBeforeFirstAwait
              THEN [tasks EXCEPT !.pc = "all",
                                 !.task = [t \in 1..NumSizes |-> "exec"],
                                 !.tempFiles = [t \in 1..NumSizes |-> t],
                                 !.pushed = 1..NumSizes]
              ELSE [tasks EXCEPT !.pc = "all",
                                 !.task = [t \in 1..NumSizes |-> "await"]]
    /\ UNCHANGED <<engine, mockMode, rz, procVars, inferVars, gp, dispatchVars,
                   pipeVars, sv, fac, og, xf>>

\* resize() of the task of size t resumes after its first await and
\* registers its temp path: createMockOutputFile (lines 208-238) has copied
\* the source by then and returns; the jimp and ImageMagick branches go on
\* to write the file.  The awaited step may reject instead (mkdir and
\* writeFile of the mock, the import of jimp); a failed detection is caught.
TaskPush(t) ==
    /\ tasks.pc \in {"all", "cleanup", "settled"}
    /\ tasks.task[t] = "await"
    /\ \E ok \in BOOLEAN :
         /\ (~ok => (mockMode \/ engine = "jimp"))
         /\ tasks' =
              IF ~ok THEN [tasks EXCEPT !.task[t] = "failed"]
              ELSE [tasks EXCEPT
                      !.task[t] = IF mockMode THEN "resized" ELSE "exec",
                      !.tempFiles = Append(@, t),
                      !.pushed = @ \cup {t},
                      !.files = IF mockMode THEN @ \cup {t} ELSE @]
    /\ UNCHANGED <<engine, mockMode, rz, procVars, inferVars, gp, dispatchVars,
                   pipeVars, sv, fac, og, xf>>

\* `await canvas.writeAsync(tempOutput)` / `await execFileAsync(magickCmd,
\* args)`, lines 311-319 and 363-369: the temp file is written and resize
\* returns it, or the step rejects, with or without a file left behind
TaskWrite(t) ==
    /\ tasks.pc \in {"all", "cleanup", "settled"}
    /\ tasks.task[t] = "exec"
    /\ \E ok \in BOOLEAN, wrote \in BOOLEAN :
         /\ (ok => wrote)
         /\ tasks' = [tasks EXCEPT
                        !.task[t] = IF ok THEN "resized" ELSE "failed",
                        !.files = IF wrote THEN @ \cup {t} ELSE @]
    /\ UNCHANGED <<engine, mockMode, rz, procVars, inferVars, gp, dispatchVars,
                   pipeVars, sv, fac, og, xf>>

\* lines 627-628: `new ImageProcessor(resizedFile)` and `await
\* processor.save(...)`, which reads the temp file; outside mock mode it
\* rejects when the file is gone
TaskSave(t) ==
    /\ tasks.pc \in {"all", "cleanup", "settled"}
    /\ tasks.task[t] = "resized"
    /\ \E ok \in BOOLEAN :
         /\ ((~mockMode /\ t \notin tasks.files) => ~ok)
         /\ tasks' = [tasks EXCEPT !.task[t] = IF ok THEN "ok" ELSE "failed"]
    /\ UNCHANGED <<engine, mockMode, rz, procVars, inferVars, gp, dispatchVars,
                   pipeVars, sv, fac, og, xf>>

\* lines 639-644 and 900-909: `await Promise.all(results)` settles, fulfilled
\* when every task is, rejected as soon as one task is; the finally block
\* calls cleanup(), whose map calls fs.unlink on every path the registry
\* holds at that moment.  With an empty registry nothing is awaited but
\* `Promise.allSettled([])`, which no file operation of a task can precede.
SizesFinally ==
    /\ tasks.pc = "all"
    /\ \/ \A t \in 1..NumSizes : tasks.task[t] = "ok"
       \/ \E t \in 1..NumSizes : tasks.task[t] = "failed"
    /\ tasks' = [tasks EXCEPT
                   !.pc = IF tasks.tempFiles = <<>> THEN "settled"
                          ELSE "cleanup",
                   !.outcome = IF \E t \in 1..NumSizes : tasks.task[t] = "failed"
                               THEN "rejected" ELSE "fulfilled",
                   !.unlinking = Range(tasks.tempFiles),
                   !.attempted = @ \cup Range(tasks.tempFiles)]
    /\ UNCHANGED <<engine, mockMode, rz, procVars, inferVars, gp, dispatchVars,
                   pipeVars, sv, fac, og, xf>>

\* lines 901-907: one `await fs.unlink(file)` completes; its error (the file
\* does not exist, or cannot be removed) is ignored
CleanupUnlink(n) ==
    /\ tasks.pc = "cleanup"
    /\ n \in tasks.unlinking
    /\ \E ok \in BOOLEAN :
         /\ (n \notin tasks.files => ~ok)
         /\ tasks' = [tasks EXCEPT
                        !.unlinking = @ \ {n},
                        !.files = IF ok THEN @ \ {n} ELSE @,
                        !.deletedInUse = IF ok /\ ~Finished(n)
                                         THEN @ \cup {n} ELSE @]
    /\ UNCHANGED <<engine, mockMode, rz, procVars, inferVars, gp, dispatchVars,
                   pipeVars, sv, fac, og, xf>>

\* lines 909-910: `await Promise.allSettled(cleanupPromises)` resumes and
\* `this.tempFiles = []` empties the registry; generateSizes settles
CleanupReset ==
    /\ tasks.pc = "cleanup"
    /\ tasks.unlinking = {}
    /\ tasks' = [tasks EXCEPT !.pc = "settled", !.tempFiles = <<>>]
    /\ UNCHANGED <<engine, mockMode, rz, procVars, inferVars, gp, dispatchVars,
                   pipeVars, sv, fac, og, xf>>

InitTasks ==
    /\ engine \in Engines
    /\ mockMode \in BOOLEAN
    /\ rz = [IdleResize EXCEPT !.pc = "idle"]
    /\ InitFs
    /\ InitInferIdle
    /\ InitGenIdle
    /\ InitDispatchIdle
    /\ InitPipeIdle
    /\ sv = NoSave
    /\ fac = NoFactory
    /\ og = NoOg
    /\ \E autoDetect \in BOOLEAN : tasks = GenerateSizesCall(autoDetect)
    /\ xf = NoTransform

NextTasks ==
    \/ SizesStart
    \/ \E t \in 1..NumSizes : TaskPush(t) \/ TaskWrite(t) \/ TaskSave(t)
    \/ SizesFinally
    \/ \E n \in 1..NumSizes : CleanupUnlink(n)
    \/ CleanupReset

SpecTasks == InitTasks /\ [][NextTasks]_vars

\* C27: once generateSizes has settled and every size task has finished, no
\* temp file of its resize calls is on storage, and no temp file was deleted
\* while the task that owns it was still writing it or saving from it.
C27_SizesCleanedUp ==
    (tasks.pc = "settled" /\ \A t \in 1..NumSizes : Finished(t)) =>
        /\ tasks.files = {}
        /\ tasks.deletedInUse = {}

\* C28: every temp path pushed to tempFiles is, from then on, either still
\* in tempFiles or has had fs.unlink called on it by a cleanup() that found
\* it in the registry.
C28_NoRegistrationLost ==
    \A n \in tasks.pushed :
        n \in Range(tasks.tempFiles) \/ n \in tasks.attempted

----------------------------------------------------------------------------
(* makeBackgroundTransparent, pixel by pixel (transparent-background.ts    *)
(* 18-44)                                                                  *)

\* the pixels input rasters are made of: opaque black, fully transparent,
\* opaque red, opaque white
KeyColors ==
    << [r |-> 0, g |-> 0, b |-> 0, a |-> 255],
       [r |-> 0, g |-> 0, b |-> 0, a |-> 0],
       [r |-> 255, g |-> 0, b |-> 0, a |-> 255],
       [r |-> 255, g |-> 255, b |-> 255, a |-> 255] >>

\* a square raster, as the RGBA pixels in scan order: one pixel kind on the
\* frame the inference samples, one inside it, one in the top left corner
RasterOf(edge, inner, corner) ==
    [pos \in 0..(KeySide * KeySide - 1) |->
        IF pos = 0 THEN KeyColors[corner]
        ELSE IF InFrame(pos % KeySide, pos \div KeySide, KeySide, KeySide)
        THEN KeyColors[edge]
        ELSE KeyColors[inner]]

\* the loop of inferBgFromRGBA, image-processor.ts 830-853, over a raster
RECURSIVE ScanAll(_, _)
ScanAll(st, raster) ==
    IF st.pos = st.width * st.height THEN st
    ELSE ScanAll(ScanStep(st, raster[st.pos]), raster)

\* inferBackgroundColor(), image-processor.ts 712-732: the mock's fixed
\* answer, or inferBgFromRGBA on the RGBA bytes of the image (no larger than
\* the sample size, so not resized)
inferBackgroundColor(raster) ==
    IF mockMode THEN BgResult(255, 255, 255, 1, FALSE)
    ELSE Decide(ScanAll(InferCall(KeySide, KeySide, 4 * KeySide * KeySide),
                        raster))

\* line 28: `#${Math.round(bg.r).toString(16).padStart(2, '0')}...`
Hex2(n) == <<HexDigits[(n \div 16) + 1], HexDigits[(n % 16) + 1]>>
BgHex(bg) == <<"#">> \o Hex2(bg.r) \o Hex2(bg.g) \o Hex2(bg.b)

\* lines 36-42: `-alpha set -fuzz N% -transparent bgHex`.  Whatever the
\* tolerance, an opaque pixel of exactly the color bgHex names is made
\* transparent; the pixels the tolerance adds are left as they are here.
ChromaKey(raster, bgHex) ==
    LET key == parseHexToRgb(bgHex)
    IN  [pos \in DOMAIN raster |->
            IF /\ raster[pos].a = 255
               /\ raster[pos].r = key.r /\ raster[pos].g = key.g
               /\ raster[pos].b = key.b
            THEN [raster[pos] EXCEPT !.a = 0]
            ELSE raster[pos]]

\* a makeBackgroundTransparent(inputPath, outputPath) call before its first
\* statement: the pixels of the input, what the inference returned, bgHex,
\* the pixels of the file at outputPath (<<>>: no file) and how it ended
KeyCall(input) ==
    [pc |-> "infer", input |-> input, inferred |-> NoResult.value,
     bgHex |-> <<>>, output |-> <<>>, exit |-> "none"]

\* lines 26-28: `const { bg } = await detector.inferBackgroundColor()`
KeyInfer ==
    /\ tp.pc = "infer"
    /\ \E ok \in BOOLEAN :
         /\ (~ok => ~mockMode)
         /\ tp' = IF ok
                  THEN [tp EXCEPT !.pc = "cleanup",
                                  !.inferred = inferBackgroundColor(tp.input)]
                  ELSE [tp EXCEPT !.pc = "exit", !.exit = "threw"]
    /\ UNCHANGED <<engine, mockMode, rz, procVars, inferVars, gp, dispatchVars,
                   ico, lateVars>>

\* lines 27-28: `await detector.cleanup()`, then bgHex
KeyCleanup ==
    /\ tp.pc = "cleanup"
    /\ tp' = [tp EXCEPT !.pc = "mkdir", !.bgHex = BgHex(tp.inferred.bg)]
    /\ UNCHANGED <<engine, mockMode, rz, procVars, inferVars, gp, dispatchVars,
                   ico, lateVars>>

\* line 33: `await fs.mkdir(path.dirname(outputPath), { recursive: true })`
KeyMkdir ==
    /\ tp.pc = "mkdir"
    /\ \E ok \in BOOLEAN :
         tp' = IF ok THEN [tp EXCEPT !.pc = "key"]
               ELSE [tp EXCEPT !.pc = "exit", !.exit = "threw"]
    /\ UNCHANGED <<engine, mockMode, rz, procVars, inferVars, gp, dispatchVars,
                   ico, lateVars>>

\* lines 36-42: `await execFile('magick', [...])`
KeyExec ==
    /\ tp.pc = "key"
    /\ \E ok \in BOOLEAN :
         tp' = IF ok
               THEN [tp EXCEPT !.pc = "exit", !.exit = "returned",
                               !.output = ChromaKey(tp.input, tp.bgHex)]
               ELSE [tp EXCEPT !.pc = "exit", !.exit = "threw"]
    /\ UNCHANGED <<engine, mockMode, rz, procVars, inferVars, gp, dispatchVars,
                   ico, lateVars>>

InitKey ==
    /\ engine \in Engines
    /\ mockMode \in BOOLEAN
    /\ rz = [IdleResize EXCEPT !.pc = "idle"]
    /\ InitFs
    /\ InitInferIdle
    /\ InitGenIdle
    /\ InitDispatchIdle
    /\ InitLateIdle
    /\ \E edge \in DOMAIN KeyColors, inner \in DOMAIN KeyColors,
          corner \in DOMAIN KeyColors :
         tp = KeyCall(RasterOf(edge, inner, corner))
    /\ ico = NoIco

NextKey == KeyInfer \/ KeyCleanup \/ KeyMkdir \/ KeyExec

SpecKey == InitKey /\ [][NextKey]_vars

\* C29: when the inference returned isTransparentBg = true and
\* makeBackgroundTransparent returned, the output has the pixels of the
\* input: none was made transparent.
C29_TransparentInputUntouched ==
    (tp.exit = "returned" /\ tp.inferred.isTransparentBg) =>
        tp.output = tp.input

====
